---- MODULE Spec2Model ----
(***************************************************************************)
(* A model of the Maven Helper dependency engine: the coordinate parser,   *)
(* the verbose tree-report parser, the webview's graph algorithms, and the *)
(* version-origin resolver over a chain of pom documents.                  *)
(*                                                                         *)
(* Representation of JavaScript strings.  A string that is split or joined *)
(* on ':' is the sequence of its ':'-separated segments, so "g:a:1.0" is   *)
(* <<"g","a","1.0">>, the empty string is <<"">> and `undefined` is the    *)
(* empty sequence Undef (no string splits into zero segments).             *)
(*                                                                         *)
(* A string that is interpolated (a version, a property value) is the      *)
(* sequence of its tokens, each a literal piece of text or one ${name}     *)
(* reference; the empty string is the single empty literal and `undefined` *)
(* is again Undef.  No literal of the model is the concatenation of two    *)
(* others, so two texts are equal strings exactly when they are equal      *)
(* token sequences.                                                        *)
(***************************************************************************)
EXTENDS Integers, Sequences, FiniteSets, TLC

VARIABLES
    pc,        \* position of the operation under way
    coord,     \* parseCoord: the coordinate string given
    parsed,    \* parseCoord: the fields returned; parseActiveProfiles: the list returned
    output,    \* the lines of the tree report, or of the active-profiles output
    index,     \* the DependencyIndexData built (nodes, key order, roots)
    depths,    \* computeShortestDepth: id -> depth
    paths,     \* buildPaths: the arguments and the paths returned
    effective, \* buildEffectiveDependencies: the list returned
    files,     \* the pom documents on disk: path -> document
    request,   \* resolveVersionOrigin: pomPath, dep and options given
    chain,     \* the PomData chain built, starting document first
    cursor,    \* the file buildPomChain reads next, the loop index, the strategy
    bom,       \* resolveFromBoms: call stack, visited paths, files read, value returned
    locations, \* resolveVersionOrigin: the PomLocation list returned
    allocated, \* number of PomLocation objects created so far
    interp,    \* property resolver: document and value given, text returned
    locator,   \* findVersionLine: the text and section given, the position returned
    heap,      \* the DependencyIndexData objects still referenced: reference -> object
    thisCurrent, \* DependencyIndex.current: null or a reference into heap
    pathTargetCache, \* DependencyIndex.pathTargetCache: key -> target
    tasks,     \* the calls of DependencyIndex methods under way
    calls,     \* number of DependencyIndex calls made so far
    disk,      \* the persisted indexes and the hash of each pom file
    events,    \* the index last passed to emitter.fire, which the panel holds
    editor     \* what the operations opened in the editor or returned

coordVars == <<coord, parsed>>
graphVars == <<depths, paths, effective>>
engineVars == <<coord, parsed, output, index, depths, paths, effective>>
pomVars == <<files, request, chain, cursor, bom, locations, allocated, interp, locator>>
indexVars == <<heap, thisCurrent, pathTargetCache, tasks, calls, disk, events, editor>>
vars == <<pc, coord, parsed, output, index, depths, paths, effective,
          files, request, chain, cursor, bom, locations, allocated, interp, locator,
          heap, thisCurrent, pathTargetCache, tasks, calls, disk, events, editor>>

\* ------------------------------------------------------------------ bounds
MaxSegs == 6
MaxLines == 3
MaxIndent == 3
MaxEdges == 4
MaxPaths == 2
MaxEffEdges == 3
MaxChain == 3
MaxBomDepth == 3
MaxChars == 6
MaxCalls == 2
MaxTokens == 5

\* ----------------------------------------------------------------- helpers
Undef == <<>>

Truthy(s) == s /= Undef /\ s /= <<"">>

Last(s) == s[Len(s)]

Front(s) == SubSeq(s, 1, Len(s) - 1)

Includes(list, value) == \E i \in 1..Len(list) : list[i] = value

Range(list) == {list[i] : i \in 1..Len(list)}

NoDuplicates(list) == \A i, j \in 1..Len(list) : list[i] = list[j] => i = j

RECURSIVE SeqsUpTo(_, _)
SeqsUpTo(S, n) ==
    IF n = 0 THEN {<<>>}
    ELSE LET shorter == SeqsUpTo(S, n - 1)
         IN  shorter \cup {Append(s, x) : s \in {t \in shorter : Len(t) = n - 1}, x \in S}

\* --------------------------------------------------------- coordinate model
\* `x || 'unknown'`
OrUnknown(seg) == IF seg = "" THEN <<"unknown">> ELSE <<seg>>

parseCoord(c) ==
    IF Len(c) < 3
    THEN [groupId |-> c, artifactId |-> c, packaging |-> Undef,
          classifier |-> Undef, version |-> <<"unknown">>, scope |-> Undef]
    ELSE LET hasScope   == Len(c) >= 5
             scope      == IF hasScope THEN <<Last(c)>> ELSE Undef
             p1         == IF hasScope THEN Front(c) ELSE c
             version    == OrUnknown(Last(p1))
             p2         == Front(p1)
             hasPkg     == Len(p2) >= 3
             packaging  == IF hasPkg THEN <<Last(p2)>> ELSE Undef
             p3         == IF hasPkg THEN Front(p2) ELSE p2
             hasCls     == Len(p3) > 2
             classifier == IF hasCls THEN <<Last(p3)>> ELSE Undef
             p4         == IF hasCls THEN Front(p3) ELSE p3
             artifactId == OrUnknown(Last(p4))
             p5         == Front(p4)
             groupId    == IF p5 = <<"">> \/ p5 = <<>> THEN <<"unknown">> ELSE p5
         IN  [groupId |-> groupId, artifactId |-> artifactId, packaging |-> packaging,
              classifier |-> classifier, version |-> version, scope |-> scope]

\* The formatting the round-trip claim states, not a function of the source: the
\* fields present, joined as groupId:artifactId[:packaging][:classifier]:version[:scope]
\* (an absent field contributes no segment).
FormatCoord(n) ==
    n.groupId \o n.artifactId \o n.packaging \o n.classifier \o n.version \o n.scope

Segs == {"", "x", "y"}

CoordInputs == SeqsUpTo(Segs, MaxSegs) \ {<<>>}

WellFormed(c) == Len(c) >= 3 /\ Len(c) <= 6 /\ \A i \in 1..Len(c) : c[i] /= ""

NoIndex == [nodes |-> <<>>, keys |-> <<>>, roots |-> <<>>]

NoParse == parseCoord(<<"">>)

NoPaths == [id |-> <<"">>, maxPaths |-> 0, result |-> <<>>]

\* The values of the variables an operation does not use.
IdleCoord == coord = <<"">> /\ parsed = NoParse
IdleTree == output = <<>>
IdleGraph == depths = <<>> /\ paths = NoPaths /\ effective = <<>>
IdleOrigin ==
    /\ request = <<>> /\ cursor = <<>> /\ bom = <<>>
    /\ locations = <<>> /\ allocated = 0
IdleLocator == locator = <<>>
IdlePom == files = <<>> /\ chain = <<>> /\ interp = <<>> /\ IdleLocator /\ IdleOrigin

IdleIndex ==
    /\ heap = <<>> /\ thisCurrent = <<>> /\ pathTargetCache = <<>> /\ tasks = <<>>
    /\ calls = 0 /\ disk = <<>> /\ events = <<>> /\ editor = <<>>

InitCoord ==
    /\ pc = "coord.start"
    /\ coord \in CoordInputs
    /\ parsed = NoParse
    /\ index = NoIndex
    /\ IdleTree /\ IdleGraph /\ IdlePom /\ IdleIndex

ParseCoord ==
    /\ pc = "coord.start"
    /\ parsed' = parseCoord(coord)
    /\ pc' = "coord.done"
    /\ UNCHANGED <<coord, output, index, graphVars, pomVars, indexVars>>

NextCoord == ParseCoord

SpecCoord == InitCoord /\ [][NextCoord]_vars

\* C2: for every well-formed coordinate of 3 to 6 non-empty segments, formatting
\* the fields parseCoord returns as group:artifact[:packaging][:classifier]:version[:scope]
\* yields the original string.
C2_RoundTrip ==
    (pc = "coord.done" /\ WellFormed(coord)) => FormatCoord(parsed) = coord

\* ------------------------------------------------------- tree report parser
\* A report line, after the [INFO] prefix is stripped: glyph says whether it
\* carries a branch glyph ("+- " or "\- "), indent is the number of characters
\* of [|\s]* before the glyph, coord is the coordinate text, ann the trailing
\* parenthetical annotation.  A line whose coord has a single segment holds no
\* ':' (a banner or blank line).
NoAnn == [managedFrom |-> Undef, omittedFor |-> Undef]

TreeIds == {<<"g", "r", "1.0">>, <<"g", "a", "1.0">>, <<"g", "a", "jar", "2.0", "test">>}

Annotations == {NoAnn, [managedFrom |-> <<"1.5">>, omittedFor |-> <<"conflict", "with", "1.0">>]}

TreeLines ==
    {[glyph |-> FALSE, indent |-> 0, coord |-> <<"BUILD">>, ann |-> NoAnn]}
    \cup [glyph : {FALSE}, indent : {0}, coord : TreeIds, ann : Annotations]
    \cup [glyph : {TRUE}, indent : 0..MaxIndent, coord : TreeIds, ann : Annotations]

createNode(id) ==
    LET p == parseCoord(id)
    IN  [id |-> id, groupId |-> p.groupId, artifactId |-> p.artifactId,
         version |-> p.version, classifier |-> p.classifier,
         packaging |-> p.packaging, scope |-> p.scope,
         managedFromVersion |-> Undef, omittedReason |-> Undef,
         conflictWithVersion |-> Undef, children |-> <<>>, parents |-> <<>>]

\* list.push(value), whether the list has the value or not.
pushUnique_Always(list, value) == Append(list, value)

\* if (!list.includes(value)) list.push(value)
pushUnique(list, value) == IF Includes(list, value) THEN list ELSE Append(list, value)

\* /omitted for conflict with ([^ )]+)/ on the annotation text
ConflictOf(omittedFor) ==
    IF Len(omittedFor) >= 3 /\ omittedFor[1] = "conflict" /\ omittedFor[2] = "with"
    THEN <<omittedFor[3]>>
    ELSE Undef

parseTreePayload(line, depth) ==
    [depth |-> depth, coord |-> line.coord,
     managedFromVersion |-> line.ann.managedFrom,
     omittedReason |-> line.ann.omittedFor,
     conflictWithVersion |-> ConflictOf(line.ann.omittedFor)]

parseTreeLine(line) ==
    IF line.glyph
    THEN parseTreePayload(line, (line.indent \div 3) + 1)
    ELSE parseTreePayload(line, 0)

\* The coordinates drawn here carry no glyph, parenthesis or scope description,
\* and the annotation is held apart from them: nothing is left to strip.
cleanCoord(raw) == raw

\* nodes[id] = node for a key that may be new: Object.keys keeps insertion order.
PutNode(st, id, node) ==
    IF id \in DOMAIN st.nodes
    THEN [st EXCEPT !.nodes = [st.nodes EXCEPT ![id] = node]]
    ELSE [st EXCEPT !.nodes = (id :> node) @@ st.nodes, !.keys = Append(st.keys, id)]

\* while (stack.length > depth) stack.pop()
Truncate(stack, depth) == IF Len(stack) > depth THEN SubSeq(stack, 1, depth) ELSE stack

\* stack[depth] = id on a stack of length <= depth: the positions skipped are holes.
SetAt(stack, depth, id) ==
    IF Len(stack) > depth
    THEN [stack EXCEPT ![depth + 1] = id]
    ELSE stack \o [i \in 1..(depth - Len(stack)) |-> Undef] \o <<id>>

\* stack[depth - 1]
StackAt(stack, k) == IF k + 1 <= Len(stack) THEN stack[k + 1] ELSE Undef

\* nodes[id] ?? createNode(id)
NodeFor(st, id) == IF id \in DOMAIN st.nodes THEN st.nodes[id] ELSE createNode(id)

\* The three annotation fields are overwritten only by a value found on the line.
WithAnnotations(node, p) ==
    [node EXCEPT
       !.managedFromVersion = IF Truthy(p.managedFromVersion) THEN p.managedFromVersion ELSE @,
       !.omittedReason = IF Truthy(p.omittedReason) THEN p.omittedReason ELSE @,
       !.conflictWithVersion = IF Truthy(p.conflictWithVersion) THEN p.conflictWithVersion ELSE @]

Store(st, p, id) == PutNode(st, id, WithAnnotations(NodeFor(st, id), p))

\* if (depth === 0) { roots.push(id); stack.length = 0; stack.push(id); continue; }
RootLine(st, id) == [st EXCEPT !.roots = Append(st.roots, id), !.stack = <<id>>]

\* if (!nodes[parent]) nodes[parent] = createNode(parent)
EnsureNode(st, parent) ==
    IF Truthy(parent) /\ parent \notin DOMAIN st.nodes
    THEN PutNode(st, parent, createNode(parent))
    ELSE st

\* pushUnique(nodes[parent].children, id); pushUnique(nodes[id].parents, parent)
AddEdge(st, parent, id) ==
    IF Truthy(parent)
    THEN [st EXCEPT !.nodes = [@ EXCEPT ![parent].children = pushUnique(@, id),
                                        ![id].parents = pushUnique(@, parent)]]
    ELSE st

BranchLine(st, id, depth, stack) ==
    [AddEdge(EnsureNode(st, StackAt(stack, depth - 1)), StackAt(stack, depth - 1), id)
        EXCEPT !.stack = SetAt(stack, depth, id)]

\* A parent that is not in the map gets no children entry, the child still
\* records it.
AddEdge_Unchecked(st, parent, id) ==
    IF Truthy(parent)
    THEN IF parent \in DOMAIN st.nodes
         THEN AddEdge(st, parent, id)
         ELSE [st EXCEPT !.nodes = [@ EXCEPT ![id].parents = pushUnique(@, parent)]]
    ELSE st

\* The loop body with a root line kept in the roots list only, and the parent
\* taken from the stack assumed to be in the map.
ProcessParsed_RootsNotStored(st, p, id) ==
    IF p.depth = 0
    THEN RootLine(st, id)
    ELSE [AddEdge_Unchecked(Store(st, p, id),
                            StackAt(Truncate(st.stack, p.depth), p.depth - 1), id)
            EXCEPT !.stack = SetAt(Truncate(st.stack, p.depth), p.depth, id)]

\* The placement without the while loop that pops the stack.
Place_NoPop(st, id, depth) ==
    IF depth = 0
    THEN RootLine(st, id)
    ELSE BranchLine(st, id, depth, st.stack)

Place(st, id, depth) ==
    IF depth = 0
    THEN RootLine(st, id)
    ELSE BranchLine(st, id, depth, Truncate(st.stack, depth))

\* The loop body for a line that parsed (part_001:488-524).
ProcessParsed(st, p, id) == Place(Store(st, p, id), id, p.depth)

\* One iteration of the loop over the lines (part_001:477-525).
ProcessLine(st, line) ==
    IF Len(line.coord) < 2
    THEN st
    ELSE ProcessParsed(st, parseTreeLine(line), cleanCoord(parseTreeLine(line).coord))

RECURSIVE ProcessLines(_, _, _)
ProcessLines(st, lines, i) ==
    IF i > Len(lines) THEN st ELSE ProcessLines(ProcessLine(st, lines[i]), lines, i + 1)

\* [...new Set(list)]
RECURSIVE Dedupe(_)
Dedupe(list) ==
    IF list = <<>> THEN <<>>
    ELSE LET front == Dedupe(Front(list))
         IN  pushUnique(front, Last(list))

\* The candidates unfiltered.
FilterParentless_All(nodes, list) == list

\* .filter((id) => nodes[id]?.parents.length === 0)
RECURSIVE FilterParentless(_, _)
FilterParentless(nodes, list) ==
    IF list = <<>> THEN <<>>
    ELSE LET front == FilterParentless(nodes, Front(list))
             id    == Last(list)
         IN  IF id \in DOMAIN nodes /\ nodes[id].parents = <<>>
             THEN Append(front, id)
             ELSE front

\* const nodes = {}; const roots = []; const stack = [];  (`line` is the
\* position of the loop over the lines, where the loop is run step by step)
NoLines == [nodes |-> <<>>, keys |-> <<>>, roots |-> <<>>, stack |-> <<>>, line |-> 0]

parseVerboseTree(lines) ==
    LET st         == ProcessLines(NoLines, lines, 1)
        candidates == Dedupe(IF st.roots /= <<>> THEN st.roots ELSE st.keys)
    IN  [nodes |-> st.nodes, keys |-> st.keys, roots |-> FilterParentless(st.nodes, candidates)]

InitTree ==
    /\ pc = "tree.start"
    /\ IdleCoord /\ IdleGraph /\ IdlePom /\ IdleIndex
    /\ \E n \in 0..MaxLines : output \in [1..n -> TreeLines]
    /\ index = NoIndex

ParseVerboseTree ==
    /\ pc = "tree.start"
    /\ index' = parseVerboseTree(output)
    /\ pc' = "tree.done"
    /\ UNCHANGED <<coordVars, output, graphVars, pomVars, indexVars>>

NextTree == ParseVerboseTree

SpecTree == InitTree /\ [][NextTree]_vars

HasNode(id) == id \in DOMAIN index.nodes

\* C1: after parseVerboseTree, every id in any node's parents list and in any
\* node's children list is a key of the node map (no dangling edge reference).
C1_NoDanglingEdges ==
    pc = "tree.done" =>
        \A id \in DOMAIN index.nodes :
            /\ \A p \in Range(index.nodes[id].parents) : HasNode(p)
            /\ \A c \in Range(index.nodes[id].children) : HasNode(c)

\* A parsed report in which a root has a child and a node has two parents.
C1_Witness ==
    /\ pc = "tree.done"
    /\ \E id \in DOMAIN index.nodes : Len(index.nodes[id].parents) >= 2
    /\ \E r \in Range(index.roots) : index.nodes[r].children /= <<>>

\* Line i of the report is one the loop processes, its depth, and its id.
ParsedLine(i) == Len(output[i].coord) >= 2

DepthAt(i) == parseTreeLine(output[i]).depth

IdAt(i) == cleanCoord(parseTreeLine(output[i]).coord)

\* The ids of the depth-0 lines parsed.
RootLineIds == {IdAt(i) : i \in {j \in 1..Len(output) : ParsedLine(j) /\ DepthAt(j) = 0}}

Parentless == {id \in DOMAIN index.nodes : index.nodes[id].parents = <<>>}

\* C19: after parseVerboseTree, the root list has no duplicates and every
\* id in it is a node with zero parents; if a depth-0 line was parsed the
\* roots are ids of depth-0 lines, otherwise they are all the nodes with zero
\* parents.
C19_Roots ==
    pc = "tree.done" =>
        /\ \A i, j \in 1..Len(index.roots) : index.roots[i] = index.roots[j] => i = j
        /\ Range(index.roots) \subseteq Parentless
        /\ IF RootLineIds /= {}
           THEN Range(index.roots) \subseteq RootLineIds
           ELSE Range(index.roots) = Parentless

\* A report parsed in which a depth-0 line names a node that has a parent
\* and is left out of the roots, while another root stays.
C19_Witness ==
    /\ pc = "tree.done"
    /\ index.roots /= <<>>
    /\ \E id \in RootLineIds : id \notin Range(index.roots)

\* C21: after parseVerboseTree the edges are symmetric and unique: c is in
\* p.children exactly if p is in c.parents, and no children or parents list
\* holds an id twice, also when a parent/child pair occurs on several lines.
C21_SymmetricUniqueEdges ==
    pc = "tree.done" =>
        /\ \A p, c \in DOMAIN index.nodes :
              Includes(index.nodes[p].children, c) <=> Includes(index.nodes[c].parents, p)
        /\ \A id \in DOMAIN index.nodes :
              NoDuplicates(index.nodes[id].children) /\ NoDuplicates(index.nodes[id].parents)

\* A report parsed whose second and third line put the same node under the
\* root of the first line: the pair occurs twice and the edge is there once.
C21_Witness ==
    /\ pc = "tree.done"
    /\ Len(output) = 3
    /\ ParsedLine(1) /\ DepthAt(1) = 0
    /\ ParsedLine(2) /\ DepthAt(2) = 1
    /\ ParsedLine(3) /\ DepthAt(3) = 1 /\ IdAt(3) = IdAt(2)
    /\ index.nodes[IdAt(2)].parents = <<IdAt(1)>>
    /\ Includes(index.nodes[IdAt(1)].children, IdAt(2))

\* ------------------------------------------ parseVerboseTree, line by line
\* The loop over the lines, one iteration a step: `index` holds nodes, key
\* order, roots and stack of the loop and the number of the line it is at.
\* The prefix of a glyph line is a number of three-character groups.
StackIds == {<<"g", "r", "1.0">>, <<"g", "a", "1.0">>}

StackLines ==
    {[glyph |-> FALSE, indent |-> 0, coord |-> <<"BUILD">>, ann |-> NoAnn]}
    \cup [glyph : {FALSE}, indent : {0}, coord : StackIds, ann : {NoAnn}]
    \cup [glyph : {TRUE}, indent : {3 * i : i \in 0..MaxIndent}, coord : StackIds, ann : {NoAnn}]

InitLines ==
    /\ pc = "lines.loop"
    /\ IdleCoord /\ IdleGraph /\ IdlePom /\ IdleIndex
    /\ \E n \in 0..MaxLines : output \in [1..n -> StackLines]
    /\ index = [NoLines EXCEPT !.line = 1]

\* for (const raw of lines) {...}: one iteration.
ProcessNextLine ==
    /\ pc = "lines.loop"
    /\ index.line <= Len(output)
    /\ index' = [ProcessLine(index, output[index.line]) EXCEPT !.line = index.line + 1]
    /\ UNCHANGED <<pc, coordVars, output, graphVars, pomVars, indexVars>>

\* const uniqueRoots = [...].filter(...); return {..., nodes, roots: uniqueRoots}
ReturnIndex ==
    /\ pc = "lines.loop"
    /\ index.line > Len(output)
    /\ index' = [nodes |-> index.nodes, keys |-> index.keys,
                 roots |-> FilterParentless(index.nodes,
                                            Dedupe(IF index.roots /= <<>>
                                                   THEN index.roots ELSE index.keys))]
    /\ pc' = "lines.done"
    /\ UNCHANGED <<coordVars, output, graphVars, pomVars, indexVars>>

NextLines == ProcessNextLine \/ ReturnIndex

SpecLines == InitLines /\ [][NextLines]_vars

\* The lines before line k at the depth above that of line k.
Above(k) == {j \in 1..(k - 1) : ParsedLine(j) /\ DepthAt(j) = DepthAt(k) - 1}

NearestAbove(k) == CHOOSE j \in Above(k) : \A i \in Above(k) : i <= j

\* The id of the nearest preceding line one level up, if no line of a lesser
\* depth lies between it and line k; else Undef.
ExpectedParent(k) ==
    IF Above(k) = {}
    THEN Undef
    ELSE IF \E i \in (NearestAbove(k) + 1)..(k - 1) : ParsedLine(i) /\ DepthAt(i) < DepthAt(k) - 1
         THEN Undef
         ELSE IdAt(NearestAbove(k))

ParentsAfter(st, id) == IF id \in DOMAIN st.nodes THEN st.nodes[id].parents ELSE <<>>

ChildrenAfter(st, id) == IF id \in DOMAIN st.nodes THEN st.nodes[id].children ELSE <<>>

\* What processing line k, at depth d >= 1, does to the edges and the stack,
\* from the loop state `before` to the loop state `after`.
BranchStep(k, before, after) ==
    /\ Len(after.stack) = DepthAt(k) + 1
    /\ after.stack[DepthAt(k) + 1] = IdAt(k)
    /\ IF ExpectedParent(k) = Undef
       THEN ParentsAfter(after, IdAt(k)) = ParentsAfter(before, IdAt(k))
       ELSE /\ ParentsAfter(after, IdAt(k))
                 = pushUnique(ParentsAfter(before, IdAt(k)), ExpectedParent(k))
            /\ ChildrenAfter(after, ExpectedParent(k))
                 = pushUnique(ChildrenAfter(before, ExpectedParent(k)), IdAt(k))

\* C20: in parseVerboseTree a depth-0 line leaves the stack holding that
\* node alone; a line at depth d >= 1 gets as parent the node of the nearest
\* preceding line at depth d-1 if no line of depth less than d-1 lies between
\* them, and no parent edge otherwise, and leaves a stack of positions 0..d
\* with the new node at position d.
C20_DepthStack ==
    [][ ( /\ pc = "lines.loop" /\ pc' = "lines.loop"
          /\ ParsedLine(index.line) )
        => IF DepthAt(index.line) = 0
           THEN index'.stack = <<IdAt(index.line)>>
           ELSE BranchStep(index.line, index, index') ]_vars

\* The loop has just processed a line at depth d >= 2 that follows a line at
\* depth d-1 with a line of lesser depth between them: the line got no
\* parent, and the stack holds positions 0..d.
C20_Witness ==
    /\ pc = "lines.loop"
    /\ index.line > 1
    /\ ParsedLine(index.line - 1)
    /\ DepthAt(index.line - 1) >= 2
    /\ Above(index.line - 1) /= {}
    /\ ExpectedParent(index.line - 1) = Undef
    /\ index.nodes[IdAt(index.line - 1)].parents = <<>>
    /\ Len(index.stack) = DepthAt(index.line - 1) + 1

\* -------------------------------------------------- webview graph algorithms
\* The index the webview holds: any graph over GraphIds with symmetric edge
\* lists (what parseVerboseTree builds), each list in any order, and any
\* parentless nodes, in any order, as roots.
RootId == <<"g", "r", "1.0">>

GraphIds == {RootId, <<"g", "a", "jar", "1.0", "compile">>,
             <<"g", "a", "jar", "2.0", "compile">>, <<"g", "a", "jar", "2.0", "test">>}

GraphKeys == <<RootId, <<"g", "a", "jar", "1.0", "compile">>,
               <<"g", "a", "jar", "2.0", "compile">>, <<"g", "a", "jar", "2.0", "test">>>>

MissingId == <<"g", "missing", "1.0">>

Perms(S) == {s \in [1..Cardinality(S) -> S] : \A i, j \in 1..Cardinality(S) : s[i] = s[j] => i = j}

EdgeSets == {E \in SUBSET (GraphIds \X GraphIds) : Cardinality(E) <= MaxEdges}

ChildrenIn(E, n) == {c \in GraphIds : <<n, c>> \in E}

ParentsIn(E, n) == {p \in GraphIds : <<p, n>> \in E}

KeyPos(n) == CHOOSE i \in 1..Len(GraphKeys) : GraphKeys[i] = n

GraphIndex(ch, pa, roots) ==
    [nodes |-> [n \in GraphIds |->
                  [createNode(n) EXCEPT !.children = ch[KeyPos(n)], !.parents = pa[KeyPos(n)]]],
     keys |-> GraphKeys,
     roots |-> roots]

GraphIndexes(E) ==
    {GraphIndex(<<c1, c2, c3, c4>>, <<p1, p2, p3, p4>>, roots) :
        c1 \in Perms(ChildrenIn(E, GraphKeys[1])), c2 \in Perms(ChildrenIn(E, GraphKeys[2])),
        c3 \in Perms(ChildrenIn(E, GraphKeys[3])), c4 \in Perms(ChildrenIn(E, GraphKeys[4])),
        p1 \in Perms(ParentsIn(E, GraphKeys[1])), p2 \in Perms(ParentsIn(E, GraphKeys[2])),
        p3 \in Perms(ParentsIn(E, GraphKeys[3])), p4 \in Perms(ParentsIn(E, GraphKeys[4])),
        roots \in UNION {Perms(rs) : rs \in SUBSET {n \in GraphIds : ParentsIn(E, n) = {}}}}
\* depths[child] === undefined || nextDepth < depths[child]
RelaxOne(child, nextDepth, st) ==
    IF child \notin DOMAIN st.d \/ nextDepth < st.d[child]
    THEN [q |-> Append(st.q, child), d |-> (child :> nextDepth) @@ st.d]
    ELSE st

\* node.children.forEach(...)
RECURSIVE Relax(_, _, _, _)
Relax(children, i, nextDepth, st) ==
    IF i > Len(children)
    THEN st
    ELSE Relax(children, i + 1, nextDepth, RelaxOne(children[i], nextDepth, st))

\* The body of the while loop for the id shifted off the queue.
Visit(idx, current, st) ==
    IF current \notin DOMAIN idx.nodes
    THEN st
    ELSE Relax(idx.nodes[current].children, 1, st.d[current] + 1, st)

RECURSIVE DepthLoop(_, _)
DepthLoop(idx, st) ==
    IF st.q = <<>>
    THEN st.d
    ELSE DepthLoop(idx, Visit(idx, Head(st.q), [q |-> Tail(st.q), d |-> st.d]))

\* Only the first root is given depth 0 and put on the queue.
SeedRoots_FirstOnly(roots) ==
    IF roots = <<>>
    THEN [q |-> <<>>, d |-> <<>>]
    ELSE [q |-> <<roots[1]>>, d |-> [r \in {roots[1]} |-> 0]]

\* roots.forEach((rootId) => { depths[rootId] = 0; queue.push(rootId); })
SeedRoots(roots) == [q |-> roots, d |-> [r \in Range(roots) |-> 0]]

computeShortestDepth(idx) == DepthLoop(idx, SeedRoots(idx.roots))

\* path.slice().reverse()
Reverse(s) == [i \in 1..Len(s) |-> s[Len(s) + 1 - i]]

\* A cap on the length of a path in place of the test for the id.
PathGuard_LengthCap(path, p) == Len(path) <= Cardinality(GraphIds)

\* if (!path.includes(p))
PathGuard(path, p) == ~Includes(path, p)

\* node.parents.forEach((p) => { if (...) queue.push([p, [...path, p]]) })
RECURSIVE PushParents(_, _, _, _)
PushParents(parents, i, path, queue) ==
    IF i > Len(parents)
    THEN queue
    ELSE PushParents(parents, i + 1, path,
                     IF PathGuard(path, parents[i])
                     THEN Append(queue, [cur |-> parents[i], path |-> Append(path, parents[i])])
                     ELSE queue)

\* The body of buildPaths' while loop for the entry shifted off the queue.
Expand(idx, item, st) ==
    IF item.cur \notin DOMAIN idx.nodes \/ idx.nodes[item.cur].parents = <<>>
    THEN [st EXCEPT !.paths = Append(@, Reverse(item.path))]
    ELSE [st EXCEPT !.queue = PushParents(idx.nodes[item.cur].parents, 1, item.path, @)]

\* The while loop without its test of paths.length.
RECURSIVE Walk_NoCap(_, _, _)
Walk_NoCap(idx, maxPaths, st) ==
    IF st.queue = <<>>
    THEN st.paths
    ELSE Walk_NoCap(idx, maxPaths,
                    Expand(idx, Head(st.queue), [queue |-> Tail(st.queue), paths |-> st.paths]))

RECURSIVE Walk(_, _, _)
Walk(idx, maxPaths, st) ==
    IF st.queue = <<>> \/ Len(st.paths) >= maxPaths
    THEN st.paths
    ELSE Walk(idx, maxPaths, Expand(idx, Head(st.queue), [queue |-> Tail(st.queue), paths |-> st.paths]))

\* Array.prototype.sort with (a, b) => a.length - b.length: stable.
RECURSIVE InsertByLength(_, _)
InsertByLength(sorted, path) ==
    IF sorted = <<>> THEN <<path>>
    ELSE IF Len(Last(sorted)) <= Len(path)
         THEN Append(sorted, path)
         ELSE Append(InsertByLength(Front(sorted), path), Last(sorted))

RECURSIVE SortByLength(_)
SortByLength(list) ==
    IF list = <<>> THEN <<>> ELSE InsertByLength(SortByLength(Front(list)), Last(list))

buildPaths(idx, id, maxPaths) ==
    SortByLength(Walk(idx, maxPaths, [queue |-> <<[cur |-> id, path |-> <<id>>]>>, paths |-> <<>>]))

InitGraph ==
    /\ pc = "graph.ready"
    /\ IdleCoord /\ IdleTree /\ IdleGraph /\ IdlePom /\ IdleIndex
    /\ \E E \in EdgeSets : index \in GraphIndexes(E)

ComputeShortestDepth ==
    /\ pc = "graph.ready"
    /\ depths' = computeShortestDepth(index)
    /\ pc' = "depth.done"
    /\ UNCHANGED <<coordVars, output, index, paths, effective, pomVars, indexVars>>

BuildPaths ==
    /\ pc = "graph.ready"
    /\ \E id \in GraphIds \cup {MissingId}, maxPaths \in 0..MaxPaths :
           paths' = [id |-> id, maxPaths |-> maxPaths, result |-> buildPaths(index, id, maxPaths)]
    /\ pc' = "paths.done"
    /\ UNCHANGED <<coordVars, output, index, depths, effective, pomVars, indexVars>>

NextGraph == ComputeShortestDepth \/ BuildPaths

SpecGraph == InitGraph /\ [][NextGraph]_vars

\* The number of child edges on a shortest path from a root, by level sets:
\* level 0 is the roots, level k+1 the children of level k not seen before.
RECURSIVE Levels(_, _, _, _)
Levels(idx, frontier, seen, k) ==
    IF frontier = {}
    THEN <<>>
    ELSE [n \in frontier |-> k]
         @@ Levels(idx,
                   UNION {Range(idx.nodes[n].children) : n \in frontier} \ seen,
                   seen \cup UNION {Range(idx.nodes[n].children) : n \in frontier},
                   k + 1)

MinEdges(idx) == Levels(idx, Range(idx.roots), Range(idx.roots), 0)

\* C3: after computeShortestDepth every root has depth 0, every node reachable
\* from a root has the minimum number of child edges from any root as its depth,
\* whatever the order of the roots list and of the children lists, and an
\* unreachable node has no depth.
C3_ShortestDepth ==
    pc = "depth.done" =>
        /\ \A r \in Range(index.roots) : r \in DOMAIN depths /\ depths[r] = 0
        /\ DOMAIN depths = DOMAIN MinEdges(index)
        /\ \A n \in DOMAIN depths : depths[n] = MinEdges(index)[n]

\* A node with two parents at different depths is given one more than the
\* smaller, two roots are present, and some node is unreachable.
C3_Witness ==
    /\ pc = "depth.done"
    /\ Len(index.roots) >= 1
    /\ \E c \in DOMAIN depths : \E a, b \in Range(index.nodes[c].parents) :
          /\ a \in DOMAIN depths /\ b \in DOMAIN depths
          /\ depths[a] < depths[b]
          /\ depths[c] = depths[a] + 1
    /\ \E n \in GraphIds : n \notin DOMAIN depths

\* C4: no path returned by buildPaths holds the same node id twice, for any
\* graph (several parents, parent cycles), start id and maxPaths.
C4_NoRepeatedId ==
    pc = "paths.done" =>
        \A i \in 1..Len(paths.result) : NoDuplicates(paths.result[i])

\* Two paths are returned from a node on a parent cycle.
C4_Witness ==
    /\ pc = "paths.done"
    /\ Len(paths.result) >= 2
    /\ \E n \in GraphIds : \E p \in Range(index.nodes[n].parents) :
          /\ Includes(index.nodes[p].parents, n)
          /\ Includes(paths.result[1], n)

\* The node is absent from the node map or has no parents.
TopNode(idx, id) == id \notin DOMAIN idx.nodes \/ idx.nodes[id].parents = <<>>

\* Each consecutive pair of the path is a parent and its child.
EdgePath(idx, path) ==
    \A k \in 1..(Len(path) - 1) :
        /\ path[k + 1] \in DOMAIN idx.nodes
        /\ Includes(idx.nodes[path[k + 1]].parents, path[k])

\* C22: buildPaths(id, maxPaths) returns at most maxPaths paths, in order of
\* non-decreasing hop count; every path ends at id, starts at a node with no
\* parents (or absent from the node map), and steps from parent to child.
C22_BoundedSortedPaths ==
    pc = "paths.done" =>
        /\ Len(paths.result) <= paths.maxPaths
        /\ \A i, j \in 1..Len(paths.result) :
              i <= j => Len(paths.result[i]) <= Len(paths.result[j])
        /\ \A i \in 1..Len(paths.result) :
              /\ paths.result[i] /= <<>>
              /\ Last(paths.result[i]) = paths.id
              /\ TopNode(index, Head(paths.result[i]))
              /\ EdgePath(index, paths.result[i])

\* As many paths as asked for are returned, of different lengths, and the
\* graph has more paths up from the node.
C22_Witness ==
    /\ pc = "paths.done"
    /\ paths.maxPaths >= 2
    /\ Len(paths.result) = paths.maxPaths
    /\ Len(paths.result[1]) < Len(paths.result[paths.maxPaths])
    /\ Len(buildPaths(index, paths.id, paths.maxPaths + 1)) > paths.maxPaths

\* ------------------------------------------------ buildEffectiveDependencies
\* Number.MAX_SAFE_INTEGER (2^53 - 1) stands for "no depth"; only its order
\* against the depths of reachable nodes matters, so the largest 32-bit
\* integer takes its place.
MaxSafeInteger == 2147483647

\* depths[node.id] ?? Number.MAX_SAFE_INTEGER
DepthOf(d, id) == IF id \in DOMAIN d THEN d[id] ELSE MaxSafeInteger

\* `${node.groupId}:${node.artifactId}:${node.classifier || ''}`
GroupKey(node) ==
    node.groupId \o node.artifactId \o (IF Truthy(node.classifier) THEN node.classifier ELSE <<"">>)

isOmittedNode(node) == Truthy(node.omittedReason)

\* versionsByKey[key].add(node.version), creating the set for a new key
AddVersion(acc, key, node) ==
    [acc EXCEPT !.versions =
        (key :> ((IF key \in DOMAIN @ THEN @[key] ELSE {})
                 \cup (IF Truthy(node.version) THEN {node.version} ELSE {}))) @@ @]

\* The first node seen for a key stays unless a later one is strictly nearer.
Replaces_DepthOnly(node, existing, d) == DepthOf(d, node.id) < DepthOf(d, existing.id)

\* Whether the node takes the place of the group's node chosen so far.
Replaces(node, existing, d) ==
    \/ DepthOf(d, node.id) < DepthOf(d, existing.id)
    \/ /\ DepthOf(d, node.id) = DepthOf(d, existing.id)
       /\ isOmittedNode(existing)
       /\ ~isOmittedNode(node)

Regroup(acc, key, node, d) ==
    IF key \notin DOMAIN acc.grouped
    THEN [acc EXCEPT !.grouped = (key :> node) @@ @, !.gkeys = Append(@, key)]
    ELSE IF Replaces(node, acc.grouped[key], d)
         THEN [acc EXCEPT !.grouped = [@ EXCEPT ![key] = node]]
         ELSE acc

\* nodes.forEach((node) => {...}) over Object.values(index.nodes)
RECURSIVE GroupLoop(_, _, _, _)
GroupLoop(idx, d, i, acc) ==
    IF i > Len(idx.keys)
    THEN acc
    ELSE GroupLoop(idx, d, i + 1,
                   Regroup(AddVersion(acc, GroupKey(idx.nodes[idx.keys[i]]), idx.nodes[idx.keys[i]]),
                           GroupKey(idx.nodes[idx.keys[i]]), idx.nodes[idx.keys[i]], d))

\* nodes.filter((n) => key of n === key)
RECURSIVE GroupNodes(_, _, _)
GroupNodes(idx, key, i) ==
    IF i > Len(idx.keys)
    THEN <<>>
    ELSE (IF GroupKey(idx.nodes[idx.keys[i]]) = key THEN <<idx.nodes[idx.keys[i]]>> ELSE <<>>)
         \o GroupNodes(idx, key, i + 1)

\* The number of distinct versions itself, not one less.
ConflictCount_NoMinusOne(versions) == Cardinality(versions)

\* Math.max(0, versions.size - 1)
ConflictCount(versions) == IF Cardinality(versions) - 1 > 0 THEN Cardinality(versions) - 1 ELSE 0

\* The first value that is neither undefined nor empty, else ''.
RECURSIVE firstNonEmpty(_)
firstNonEmpty(values) ==
    IF values = <<>>
    THEN <<"">>
    ELSE IF Truthy(Head(values)) THEN Head(values) ELSE firstNonEmpty(Tail(values))

\* The distinct non-empty values outside excludeValues, in first-seen order;
\* the joined text 'v1, v2' is kept as the sequence of its values.
RECURSIVE joinUnique(_, _)
joinUnique(values, excludeValues) ==
    IF values = <<>>
    THEN <<>>
    ELSE IF Truthy(Last(values))
              /\ ~Includes(excludeValues, Last(values))
              /\ ~Includes(Front(values), Last(values))
         THEN joinUnique(Front(values), excludeValues) \o Last(values)
         ELSE joinUnique(Front(values), excludeValues)

\* The word after the first "<w1> <w2> " of the reason, else ''.
RECURSIVE WordAfter(_, _, _, _)
WordAfter(reason, w1, w2, i) ==
    IF i + 2 > Len(reason)
    THEN <<"">>
    ELSE IF reason[i] = w1 /\ reason[i + 1] = w2
         THEN <<reason[i + 2]>>
         ELSE WordAfter(reason, w1, w2, i + 1)

extractManagedFromOmitted(omittedReason) ==
    IF ~Truthy(omittedReason) THEN <<"">> ELSE WordAfter(omittedReason, "managed", "from", 1)

extractConflictFromOmitted(omittedReason) ==
    IF ~Truthy(omittedReason) THEN <<"">> ELSE WordAfter(omittedReason, "conflict", "with", 1)

\* groupNodes.map((n) => f(n))
MapNodes(groupNodes, field) == [i \in 1..Len(groupNodes) |-> groupNodes[i][field]]

MapManaged(groupNodes) ==
    [i \in 1..Len(groupNodes) |-> extractManagedFromOmitted(groupNodes[i].omittedReason)]

MapConflict(groupNodes) ==
    [i \in 1..Len(groupNodes) |-> extractConflictFromOmitted(groupNodes[i].omittedReason)]

OrDash(text) == IF Truthy(text) THEN text ELSE <<"-">>

EffectiveEntry(node, versions, groupNodes) ==
    [node |-> node,
     conflictCount |-> ConflictCount(versions),
     groupNodes |-> groupNodes,
     displayManagedFrom |->
        firstNonEmpty(<<node.managedFromVersion, extractManagedFromOmitted(node.omittedReason)>>
                      \o MapNodes(groupNodes, "managedFromVersion") \o MapManaged(groupNodes)),
     displayOmitted |->
        OrDash(firstNonEmpty(<<node.omittedReason>> \o MapNodes(groupNodes, "omittedReason"))),
     displayConflictWith |->
        OrDash(joinUnique(<<node.conflictWithVersion, extractConflictFromOmitted(node.omittedReason)>>
                          \o MapNodes(groupNodes, "conflictWithVersion") \o MapConflict(groupNodes),
                          <<node.version>>))]

buildEffectiveDependencies(idx) ==
    LET acc == GroupLoop(idx, computeShortestDepth(idx), 1,
                         [grouped |-> <<>>, gkeys |-> <<>>, versions |-> <<>>])
    IN  [i \in 1..Len(acc.gkeys) |->
           EffectiveEntry(acc.grouped[acc.gkeys[i]], acc.versions[acc.gkeys[i]],
                          GroupNodes(idx, acc.gkeys[i], 1))]

\* The sub-sequence of GraphKeys whose ids are in S.
RECURSIVE KeysIn(_, _)
KeysIn(S, i) ==
    IF i > Len(GraphKeys)
    THEN <<>>
    ELSE (IF GraphKeys[i] \in S THEN <<GraphKeys[i]>> ELSE <<>>) \o KeysIn(S, i + 1)

OmittedAnn == [managedFromVersion |-> Undef, omittedReason |-> <<"conflict", "with", "1.0">>,
               conflictWithVersion |-> <<"1.0">>]

\* An index with the nodes in key order `keys`, the nodes of `om` annotated as
\* omitted, and every parentless node a root; the project's own node is never
\* a dependency of another.
EffIndex(E, keys, om) ==
    [nodes |-> [n \in GraphIds |->
                  [(IF n \in om THEN WithAnnotations(createNode(n), OmittedAnn) ELSE createNode(n))
                     EXCEPT !.children = KeysIn(ChildrenIn(E, n), 1),
                            !.parents = KeysIn(ParentsIn(E, n), 1)]],
     keys |-> keys,
     roots |-> KeysIn({n \in GraphIds : ParentsIn(E, n) = {}}, 1)]

\* Coordinates group:artifact:packaging:classifier:version:scope: the second
\* differs from the first in the classifier, the third in the packaging.
ClassifierIds == {<<"g", "a", "jar", "x", "1.0", "compile">>,
                  <<"g", "a", "jar", "y", "1.0", "compile">>,
                  <<"g", "a", "war", "x", "1.0", "compile">>}

\* The index of a project whose dependencies, in the order `keys`, are the
\* nodes of those coordinates.
ClassifierIndex(keys) ==
    [nodes |-> (RootId :> [createNode(RootId) EXCEPT !.children = keys])
               @@ [n \in ClassifierIds |-> [createNode(n) EXCEPT !.parents = <<RootId>>]],
     keys |-> <<RootId>> \o keys,
     roots |-> <<RootId>>]

InitEffective ==
    /\ pc = "effective.ready"
    /\ IdleCoord /\ IdleTree /\ IdleGraph /\ IdlePom /\ IdleIndex
    /\ \/ \E E \in {F \in SUBSET (GraphIds \X (GraphIds \ {RootId})) : Cardinality(F) <= MaxEffEdges} :
            \E keys \in Perms(GraphIds), om \in SUBSET (GraphIds \ {RootId}) :
                index = EffIndex(E, keys, om)
       \/ \E keys \in Perms(ClassifierIds) : index = ClassifierIndex(keys)

BuildEffectiveDependencies ==
    /\ pc = "effective.ready"
    /\ effective' = buildEffectiveDependencies(index)
    /\ pc' = "effective.done"
    /\ UNCHANGED <<coordVars, output, index, depths, paths, pomVars, indexVars>>

NextEffective == BuildEffectiveDependencies

SpecEffective == InitEffective /\ [][NextEffective]_vars

\* The members of the conflict group `key`, and the least shortest depth among them.
Members(key) == {n \in DOMAIN index.nodes : GroupKey(index.nodes[n]) = key}

DepthIn(n) == DepthOf(MinEdges(index), n)

\* C7: for every group of nodes sharing (group, artifact, classifier) and every
\* iteration order of the nodes, the representative has the least shortest depth
\* of the group, and is non-omitted if any member at that depth is non-omitted.
C7_Representative ==
    pc = "effective.done" =>
        \A i \in 1..Len(effective) :
            /\ effective[i].node.id \in Members(GroupKey(effective[i].node))
            /\ \A m \in Members(GroupKey(effective[i].node)) : DepthIn(effective[i].node.id) <= DepthIn(m)
            /\ (\E m \in Members(GroupKey(effective[i].node)) :
                    /\ DepthIn(m) = DepthIn(effective[i].node.id)
                    /\ ~isOmittedNode(index.nodes[m]))
               => ~isOmittedNode(effective[i].node)

\* Version 1.0 at depth 2, version 2.0 omitted at depth 1 and version 2.0 not
\* omitted at depth 1, the omitted one first in iteration order: the
\* non-omitted 2.0 node is the representative.
C7_Witness ==
    /\ pc = "effective.done"
    /\ \E i \in 1..Len(effective) : \E a, b, c \in Members(GroupKey(effective[i].node)) :
          /\ index.nodes[a].version = <<"1.0">> /\ DepthIn(a) = 2
          /\ index.nodes[b].version = <<"2.0">> /\ DepthIn(b) = 1 /\ isOmittedNode(index.nodes[b])
          /\ index.nodes[c].version = <<"2.0">> /\ DepthIn(c) = 1 /\ ~isOmittedNode(index.nodes[c])
          /\ \E j, k \in 1..Len(index.keys) : j < k /\ index.keys[j] = b /\ index.keys[k] = c
          /\ effective[i].node.id = c
          /\ effective[i].conflictCount = 1

\* The values the conflicts-with display is drawn from, in the order checked.
ConflictValues(entry) ==
    <<entry.node.conflictWithVersion, extractConflictFromOmitted(entry.node.omittedReason)>>
    \o MapNodes(entry.groupNodes, "conflictWithVersion") \o MapConflict(entry.groupNodes)

\* C23: for every conflict group the conflicts-with display value is the
\* first non-empty value among the representative's conflictWithVersion, the
\* value extracted from its omission annotation, and then the same of the
\* other members: one value ('-' if there is none), not a combination.
C23_FirstConflictValue ==
    pc = "effective.done" =>
        \A i \in 1..Len(effective) :
            effective[i].displayConflictWith = OrDash(firstNonEmpty(ConflictValues(effective[i])))

\* The entry of the list whose conflict group holds the node.
InGroup(entry, id) ==
    entry.node.id = id \/ \E j \in 1..Len(entry.groupNodes) : entry.groupNodes[j].id = id

SameGroup(a, b) ==
    \E i \in 1..Len(effective) : InGroup(effective[i], a) /\ InGroup(effective[i], b)

\* Two 6-segment coordinates that are equal but for segment k.
DifferOnlyIn(a, b, k) ==
    /\ Len(a) = 6 /\ Len(b) = 6
    /\ \A s \in 1..6 : (a[s] /= b[s]) <=> (s = k)

\* C28: of two nodes parsed from 6-segment coordinates
\* group:artifact:packaging:classifier:version:scope with the same group and
\* artifact, those that differ in the classifier segment are in different
\* conflict groups and those that differ only in the packaging segment are
\* in the same group.
C28_ClassifierSeparatesGroups ==
    pc = "effective.done" =>
        \A a, b \in DOMAIN index.nodes :
            /\ (Len(a) = 6 /\ Len(b) = 6 /\ a[1] = b[1] /\ a[2] = b[2] /\ a[4] /= b[4])
                  => ~SameGroup(a, b)
            /\ DifferOnlyIn(a, b, 3) => SameGroup(a, b)

\* C8: the conflictCount reported for a group is the number of distinct versions
\* among its members minus one, never negative, and the list has exactly one
\* entry per distinct (group, artifact, classifier) key of the node map.
C8_ConflictCount ==
    pc = "effective.done" =>
        /\ \A i \in 1..Len(effective) :
              /\ effective[i].conflictCount
                   = Cardinality({index.nodes[m].version : m \in Members(GroupKey(effective[i].node))}) - 1
              /\ effective[i].conflictCount >= 0
        /\ \A n \in DOMAIN index.nodes :
              Cardinality({i \in 1..Len(effective) : GroupKey(effective[i].node) = GroupKey(index.nodes[n])}) = 1
        /\ \A i \in 1..Len(effective) : Members(GroupKey(effective[i].node)) /= {}

\* Two groups are listed, one with two distinct versions among three members.
C8_Witness ==
    /\ pc = "effective.done"
    /\ Len(effective) = 2
    /\ \E i \in 1..Len(effective) :
          /\ Cardinality(Members(GroupKey(effective[i].node))) = 3
          /\ effective[i].conflictCount = 1
    /\ \E i \in 1..Len(effective) : effective[i].conflictCount = 0

\* ------------------------------------------------------------ pom documents
Lit(s) == [ref |-> FALSE, s |-> s]

Ref(name) == [ref |-> TRUE, s |-> name]

EmptyText == <<Lit("")>>

TruthyText(text) == text /= Undef /\ text /= EmptyText

\* The text of concatenated pieces: empty pieces vanish.
JoinText(tokens) ==
    IF SelectSeq(tokens, LAMBDA t : t /= Lit("")) = <<>> /\ tokens /= <<>>
    THEN EmptyText
    ELSE SelectSeq(tokens, LAMBDA t : t /= Lit(""))

\* A document is the sequence of its property and dependency elements, each
\* inside the project itself (profile = <<>>) or inside a profile block
\* (profile = <<id>>, <<"">> for a block without id).  Every tag starts its
\* line; a property takes one line, a dependency one line per tag.
PropertyItem(profile, name, value) ==
    [kind |-> "property", profile |-> profile, name |-> name, value |-> value,
     section |-> "", groupId |-> Undef, artifactId |-> Undef, version |-> Undef,
     type |-> "", scope |-> ""]

DependencyItem(profile, section, groupId, artifactId, version, type, scope) ==
    [kind |-> "dependency", profile |-> profile, name |-> "", value |-> Undef,
     section |-> section, groupId |-> groupId, artifactId |-> artifactId,
     version |-> version, type |-> type, scope |-> scope]

Height(item) ==
    IF item.kind = "property"
    THEN 1
    ELSE 4 + (IF item.version /= Undef THEN 1 ELSE 0)
           + (IF item.type /= "" THEN 1 ELSE 0)
           + (IF item.scope /= "" THEN 1 ELSE 0)

\* The line on which element i of the text starts.
RECURSIVE LineOf(_, _)
LineOf(xml, i) == IF i = 1 THEN 1 ELSE LineOf(xml, i - 1) + Height(xml[i - 1])

\* A path is a directory and, for a file of the local repository, a version.
PomPath(dir) == [dir |-> dir, version |-> Undef]

\* A file that fs.access finds and fs.readFile fails on.
Unreadable == [error |-> "EACCES"]

\* fs.readFile(file) gives the text.
Readable(fsys, file) == file \in DOMAIN fsys /\ fsys[file] /= Unreadable

\* path.resolve(path.dirname(currentFile), parent.relativePath || '../pom.xml')
resolveParentPath(parent, currentFile) ==
    IF parent = <<>>
    THEN Undef
    ELSE IF parent[1].relativePath = "pom.xml"
         THEN <<currentFile>>
         ELSE <<PomPath(IF currentFile.dir = <<>> THEN <<>> ELSE Front(currentFile.dir))>>

\* Names every object literal inherits (constructor, toString, valueOf, ...),
\* for which `name in object` holds, and the text of the inherited function.
InheritedNames == {"constructor"}

InheritedText == <<Lit("function Object() { [native code] }")>>

HasProperty(properties, name) == name \in DOMAIN properties \/ name \in InheritedNames

GetProperty(properties, name) ==
    IF name \in DOMAIN properties THEN properties[name] ELSE InheritedText

\* A name repeated in one block parses to an array, which is dropped.
normalizeProperties(xml, profile) ==
    LET own == {i \in 1..Len(xml) : xml[i].kind = "property" /\ xml[i].profile = profile}
        once == {i \in own : \A j \in own : xml[j].name = xml[i].name => j = i}
    IN  [name \in {xml[i].name : i \in once} |->
            xml[CHOOSE i \in once : xml[i].name = name].value]

DepEntry(item) ==
    [groupId |-> IF Truthy(item.groupId) THEN item.groupId ELSE <<"">>,
     artifactId |-> IF Truthy(item.artifactId) THEN item.artifactId ELSE <<"">>,
     version |-> item.version, type |-> item.type, scope |-> item.scope]

EntriesOf(items) == [i \in 1..Len(items) |-> DepEntry(items[i])]

normalizeDependencies(xml, profile, section) ==
    SelectSeq(EntriesOf(SelectSeq(xml, LAMBDA item :
                  item.kind = "dependency" /\ item.profile = profile /\ item.section = section)),
              LAMBDA d : Truthy(d.groupId) /\ Truthy(d.artifactId))

ProfileData(xml, profile) ==
    [id |-> IF profile = <<"">> THEN Undef ELSE profile,
     properties |-> normalizeProperties(xml, profile),
     dependencyManagement |-> normalizeDependencies(xml, profile, "dependencyManagement"),
     dependencies |-> normalizeDependencies(xml, profile, "dependency")]

\* The profile blocks of the text, in document order.
ProfileBlocks(xml) ==
    Dedupe(SelectSeq([i \in 1..Len(xml) |-> xml[i].profile], LAMBDA b : b /= <<>>))

normalizeProfiles(xml) ==
    [i \in 1..Len(ProfileBlocks(xml)) |-> ProfileData(xml, ProfileBlocks(xml)[i])]

FirstTruthy(own, inherited) == IF TruthyText(own) THEN own ELSE inherited

readPom(fsys, file) ==
    [file |-> file,
     xml |-> fsys[file].items,
     parentPath |-> resolveParentPath(fsys[file].parent, file),
     groupId |-> FirstTruthy(fsys[file].groupId,
                             IF fsys[file].parent = <<>> THEN Undef ELSE fsys[file].parent[1].groupId),
     artifactId |-> fsys[file].artifactId,
     version |-> FirstTruthy(fsys[file].version,
                             IF fsys[file].parent = <<>> THEN Undef ELSE fsys[file].parent[1].version),
     properties |-> normalizeProperties(fsys[file].items, <<>>),
     dependencyManagement |-> normalizeDependencies(fsys[file].items, <<>>, "dependencyManagement"),
     dependencies |-> normalizeDependencies(fsys[file].items, <<>>, "dependency"),
     profiles |-> normalizeProfiles(fsys[file].items)]

\* A name holding "}${", which text.match(/^\$\{(.+?)\}$/) captures from a
\* text that starts and ends with a reference and has more than one token.
BracedName == "}${"

getPropertyRef(version) ==
    IF version = Undef \/ ~Head(version).ref \/ ~Last(version).ref
    THEN Undef
    ELSE IF Len(version) = 1 THEN <<Head(version).s>> ELSE <<BracedName>>

\* filterProfiles, were every profile block of the document consulted.
filterProfiles_All(pom, profiles) == pom.profiles

\* pom.profiles.filter((p) => p.id && profiles.includes(p.id))
filterProfiles(pom, profiles) ==
    IF profiles = <<>>
    THEN <<>>
    ELSE SelectSeq(pom.profiles, LAMBDA p : Truthy(p.id) /\ Includes(profiles, p.id[1]))

\* The value of the first of the blocks that has the name, else Undef.
RECURSIVE LookupInBlocks(_, _, _)
LookupInBlocks(blocks, name, i) ==
    IF i > Len(blocks)
    THEN Undef
    ELSE IF HasProperty(blocks[i].properties, name)
         THEN GetProperty(blocks[i].properties, name)
         ELSE LookupInBlocks(blocks, name, i + 1)

\* A document's own properties, then its active profiles.
BlocksOf(pom, profiles) == <<pom>> \o filterProfiles(pom, profiles)

\* for (const p of chain) { own properties; active profiles' properties }
RECURSIVE LookupInChain(_, _, _, _)
LookupInChain(chn, profiles, name, i) ==
    IF i > Len(chn)
    THEN Undef
    ELSE IF LookupInBlocks(BlocksOf(chn[i], profiles), name, 1) /= Undef
         THEN LookupInBlocks(BlocksOf(chn[i], profiles), name, 1)
         ELSE LookupInChain(chn, profiles, name, i + 1)

resolvePropertyValue(chn, profiles, value) ==
    IF getPropertyRef(value) = Undef
    THEN Undef
    ELSE LookupInChain(chn, profiles, getPropertyRef(value)[1], 1)

OrMatch(text, token) == IF TruthyText(text) THEN text ELSE <<token>>

\* The replacement the resolver's callback returns for one ${name}.
ReplaceRef(chn, profiles, pom, token) ==
    IF token.s \in {"project.version", "pom.version"}
    THEN OrMatch(pom.version, token)
    ELSE IF token.s \in {"project.groupId", "pom.groupId"}
    THEN OrMatch(pom.groupId, token)
    ELSE IF token.s \in {"project.artifactId", "pom.artifactId"}
    THEN OrMatch(pom.artifactId, token)
    ELSE IF LookupInChain(chn, profiles, token.s, 1) /= Undef
    THEN LookupInChain(chn, profiles, token.s, 1)
    ELSE <<token>>

\* value.replace(/\$\{([^}]+)\}/g, callback): one pass over the references.
RECURSIVE ReplaceAll(_, _, _, _)
ReplaceAll(chn, profiles, pom, value) ==
    IF value = <<>>
    THEN <<>>
    ELSE (IF Head(value).ref THEN ReplaceRef(chn, profiles, pom, Head(value)) ELSE <<Head(value)>>)
         \o ReplaceAll(chn, profiles, pom, Tail(value))

\* buildPropertyResolver(chain, profiles)(pom, value)
propertyResolver(chn, profiles, pom, value) ==
    IF ~TruthyText(value) THEN value ELSE JoinText(ReplaceAll(chn, profiles, pom, value))

\* ------------------------------------------------- property resolver inputs
ModulePom == PomPath(<<"p", "m">>)

ParentPom == PomPath(<<"p">>)

Opt(present, item) == IF present THEN <<item>> ELSE <<>>

\* A document with project coordinates g:<artifactId>:<version>, a parent
\* element (relativePath '' is the default '../pom.xml') or none, and elements.
Document(artifactId, version, parent, items) ==
    [groupId |-> <<Lit("g")>>, artifactId |-> <<Lit(artifactId)>>, version |-> version,
     parent |-> parent, items |-> items]

ParentRef(version, relativePath) ==
    <<[groupId |-> <<Lit("g")>>, version |-> version, relativePath |-> relativePath]>>

PropModuleChoices ==
    [version : {Undef, <<Lit("9.9.9")>>},
     v : {Undef, <<Lit("1.2")>>, <<Ref("w")>>},
     p1 : BOOLEAN, p2 : BOOLEAN, parent : BOOLEAN]

PropParentChoices == [v : BOOLEAN, w : BOOLEAN, reserved : BOOLEAN]

PropModule(a) ==
    Document("m", a.version,
             IF a.parent THEN ParentRef(<<Lit("8.8.8")>>, "") ELSE <<>>,
             Opt(a.v /= Undef, PropertyItem(<<>>, "v", a.v))
             \o Opt(a.p1, PropertyItem(<<"p1">>, "v", <<Lit("3.4")>>))
             \o Opt(a.p2, PropertyItem(<<"p2">>, "v", <<Lit("5.6")>>)))

PropParent(b) ==
    Document("p", <<Lit("8.8.8")>>, <<>>,
             Opt(b.v, PropertyItem(<<>>, "lib.version", <<Lit("2.3.0")>>))
             \o Opt(b.v, PropertyItem(<<>>, "v", <<Lit("2.3.0")>>))
             \o Opt(b.w, PropertyItem(<<>>, "w", <<Lit("5")>>))
             \o Opt(b.reserved, PropertyItem(<<>>, "project.version", <<Lit("0.0.1")>>)))

PropFiles(a, b) ==
    IF a.parent
    THEN (ModulePom :> PropModule(a)) @@ (ParentPom :> PropParent(b))
    ELSE (ModulePom :> PropModule(a))

PropChain(fsys) ==
    IF ParentPom \in DOMAIN fsys
    THEN <<readPom(fsys, ModulePom), readPom(fsys, ParentPom)>>
    ELSE <<readPom(fsys, ModulePom)>>

PropProfiles == {<<>>, <<"p1">>, <<"p2", "p1">>}

PropValues ==
    {<<Ref("v")>>, <<Ref("lib.version")>>, <<Ref("project.version")>>, <<Ref("pom.artifactId")>>,
     <<Ref("v"), Lit("-"), Ref("w")>>, <<Lit("1.2.3")>>, <<Ref("u")>>, <<Ref("constructor")>>}

InitProp ==
    /\ pc = "prop.ready"
    /\ IdleCoord /\ IdleTree /\ IdleGraph /\ IdleOrigin /\ IdleIndex /\ IdleLocator
    /\ index = NoIndex
    /\ \E a \in PropModuleChoices, b \in PropParentChoices :
          /\ (~a.parent => b = [v |-> FALSE, w |-> FALSE, reserved |-> FALSE])
          /\ files = PropFiles(a, b)
          /\ chain = PropChain(PropFiles(a, b))
          /\ \E k \in 1..Len(PropChain(PropFiles(a, b))), profiles \in PropProfiles, value \in PropValues :
                interp = [pom |-> k, profiles |-> profiles, value |-> value, result |-> Undef]

\* const resolved = propertyResolver(pom, value)
ResolveProperty ==
    /\ pc = "prop.ready"
    /\ interp' = [interp EXCEPT
                    !.result = propertyResolver(chain, interp.profiles, chain[interp.pom], interp.value)]
    /\ pc' = "prop.done"
    /\ UNCHANGED <<engineVars, indexVars, files, request, chain, cursor, bom, locations, allocated, locator>>

NextProp == ResolveProperty

SpecProp == InitProp /\ [][NextProp]_vars

\* The blocks searched for a property, in the order stated: for each document
\* of the chain, the document itself and then its profile blocks whose id is
\* active.
RECURSIVE SearchOrder(_)
SearchOrder(i) ==
    IF i > Len(chain)
    THEN <<>>
    ELSE <<chain[i]>>
         \o SelectSeq(chain[i].profiles,
                      LAMBDA p : p.id /= Undef /\ \E j \in 1..Len(interp.profiles) : <<interp.profiles[j]>> = p.id)
         \o SearchOrder(i + 1)

Declaring(name) == SelectSeq(SearchOrder(1), LAMBDA block : name \in DOMAIN block.properties)

OwnField(name) ==
    IF name \in {"project.version", "pom.version"} THEN chain[interp.pom].version
    ELSE IF name \in {"project.groupId", "pom.groupId"} THEN chain[interp.pom].groupId
    ELSE chain[interp.pom].artifactId

ReservedNames ==
    {"project.version", "pom.version", "project.groupId", "pom.groupId",
     "project.artifactId", "pom.artifactId"}

ExpectedFor(token) ==
    IF ~token.ref THEN <<token>>
    ELSE IF token.s \in ReservedNames
    THEN (IF TruthyText(OwnField(token.s)) THEN OwnField(token.s) ELSE <<token>>)
    ELSE IF Declaring(token.s) /= <<>>
    THEN Declaring(token.s)[1].properties[token.s]
    ELSE <<token>>

RECURSIVE ExpectedText(_)
ExpectedText(value) ==
    IF value = <<>> THEN <<>> ELSE ExpectedFor(Head(value)) \o ExpectedText(Tail(value))

\* C6: the resolver replaces each ${name} in one pass: a reserved name by the
\* interpolating document's own coordinate and nothing else, any other name by
\* the first declaration in chain order (a document's own properties before
\* its active profiles), without expanding the substituted value again, and a
\* reference that nothing declares stays the literal ${name}.
C6_OnePassResolver ==
    pc = "prop.done" => interp.result = JoinText(ExpectedText(interp.value))

\* ------------------------------------------------------------- text locator
\* text.slice(0, offset) ends `before` characters into line `line`.
offsetToLineCol(line, before) == [line |-> line, column |-> before + 1]

NotFound == [line |-> 1, column |-> 1]

\* The first <dependency> block of the section naming groupId and artifactId
\* (0 if none); the text is searched whatever profile the block is in.
findDependencyBlock(xml, groupId, artifactId, section) ==
    LET hits == {i \in 1..Len(xml) :
                    /\ xml[i].kind = "dependency"
                    /\ xml[i].section = section
                    /\ xml[i].groupId = groupId
                    /\ xml[i].artifactId = artifactId}
    IN  IF hits = {} THEN 0 ELSE CHOOSE i \in hits : \A j \in hits : i <= j

\* The <version> tag follows the <dependency>, <groupId> and <artifactId> lines.
VersionLineAt(xml, block) ==
    IF block = 0
    THEN NotFound
    ELSE IF xml[block].version /= Undef
         THEN offsetToLineCol(LineOf(xml, block) + 3, 1)
         ELSE offsetToLineCol(LineOf(xml, block), 1)

findVersionLine(xml, groupId, artifactId, section) ==
    VersionLineAt(xml, findDependencyBlock(xml, groupId, artifactId, section))

DependencyLineAt(xml, block) ==
    IF block = 0 THEN <<>> ELSE <<offsetToLineCol(LineOf(xml, block), 1)>>

\* null is <<>>, a position p is <<p>>.
findDependencyLine(xml, groupId, artifactId, section) ==
    DependencyLineAt(xml, findDependencyBlock(xml, groupId, artifactId, section))

findPropertyLine(xml, prop) ==
    LET hits == {i \in 1..Len(xml) : xml[i].kind = "property" /\ xml[i].name = prop}
    IN  IF hits = {}
        THEN NotFound
        ELSE offsetToLineCol(LineOf(xml, CHOOSE i \in hits : \A j \in hits : i <= j), 1)

\* A PomLocation object; ref tells one object from another with equal fields.
PomLocation(ref, file, position, kind) ==
    [ref |-> ref, file |-> file, line |-> position.line, column |-> position.column, kind |-> kind]

\* findPropertyLocation: <<>> for null, else the one new location.
RECURSIVE findPropertyLocation(_, _, _, _, _)
findPropertyLocation(chn, profiles, prop, i, ref) ==
    IF i > Len(chn)
    THEN <<>>
    ELSE IF LookupInBlocks(BlocksOf(chn[i], profiles), prop, 1) /= Undef
         THEN <<PomLocation(ref, chn[i].file, findPropertyLine(chn[i].xml, prop), "property")>>
         ELSE findPropertyLocation(chn, profiles, prop, i + 1, ref)

\* list.find((d) => d.groupId === dep.groupId && d.artifactId === dep.artifactId)
FirstOf(list) == IF list = <<>> THEN <<>> ELSE <<Head(list)>>

FindEntry(list, dep) ==
    FirstOf(SelectSeq(list, LAMBDA d : d.groupId = dep.groupId /\ d.artifactId = dep.artifactId))

SectionList(block, section) ==
    IF section = "dependencyManagement" THEN block.dependencyManagement ELSE block.dependencies

RECURSIVE FindInBlocks(_, _, _, _)
FindInBlocks(blocks, dep, section, i) ==
    IF i > Len(blocks)
    THEN <<>>
    ELSE IF FindEntry(SectionList(blocks[i], section), dep) /= <<>>
         THEN FindEntry(SectionList(blocks[i], section), dep)
         ELSE FindInBlocks(blocks, dep, section, i + 1)

\* undefined is <<>>, a match d is <<d>>.
findDepInPom(pom, dep, profiles, section) ==
    FindInBlocks(BlocksOf(pom, profiles), dep, section, 1)

Matched(match) == match /= <<>> /\ TruthyText(match[1].version)

\* The property location pushed when the matched version is one ${name}.
PropertyLocationOf(chn, profiles, version, ref) ==
    IF getPropertyRef(version) = Undef
    THEN <<>>
    ELSE findPropertyLocation(chn, profiles, getPropertyRef(version)[1], 1, ref)

\* if (resolvedVersion && resolvedVersion !== match.version)
Resolves(chn, profiles, pom, version) ==
    /\ TruthyText(propertyResolver(chn, profiles, pom, version))
    /\ propertyResolver(chn, profiles, pom, version) /= version

\* if (resolvedLocation && !locations.includes(resolvedLocation)) push: includes
\* finds the object only if that very object is in the list.
PushIfNotIncluded(locs, resolvedLocation) ==
    IF resolvedLocation /= <<>> /\ ~Includes(locs, resolvedLocation[1])
    THEN locs \o resolvedLocation
    ELSE locs

\* The locations of a match in a chain document (lines 66-92, 104-130, 136-162):
\* the version tag, the property it names, the property it resolves through.
MatchLocations(chn, profiles, pom, match, section, ref) ==
    IF Resolves(chn, profiles, pom, match.version)
    THEN PushIfNotIncluded(
            <<PomLocation(ref + 1, pom.file,
                          findVersionLine(pom.xml, match.groupId, match.artifactId, section), section)>>
            \o PropertyLocationOf(chn, profiles, match.version, ref + 2),
            PropertyLocationOf(chn, profiles, match.version, ref + 3))
    ELSE <<PomLocation(ref + 1, pom.file,
                       findVersionLine(pom.xml, match.groupId, match.artifactId, section), section)>>
         \o PropertyLocationOf(chn, profiles, match.version, ref + 2)

LocationKey(location) == <<location.kind, location.file, location.line, location.column>>

PushUnseen(out, location) ==
    IF \E i \in 1..Len(out) : LocationKey(out[i]) = LocationKey(location)
    THEN out
    ELSE Append(out, location)

RECURSIVE dedupeLocations(_)
dedupeLocations(locs) ==
    IF locs = <<>> THEN <<>> ELSE PushUnseen(dedupeLocations(Front(locs)), Last(locs))

\* ---------------------------------------------------------- manifest imports
BomImportEntry(d, pom) ==
    [groupId |-> d.groupId, artifactId |-> d.artifactId, version |-> d.version,
     type |-> d.type, scope |-> d.scope, sourcePom |-> pom]

ImportsIn(block, pom) ==
    LET boms == SelectSeq(block.dependencyManagement, LAMBDA d : d.type = "pom" /\ d.scope = "import")
    IN  [i \in 1..Len(boms) |-> BomImportEntry(boms[i], pom)]

RECURSIVE ImportsInBlocks(_, _, _)
ImportsInBlocks(blocks, pom, i) ==
    IF i > Len(blocks)
    THEN <<>>
    ELSE ImportsIn(blocks[i], pom) \o ImportsInBlocks(blocks, pom, i + 1)

RECURSIVE collectBomImports(_, _)
collectBomImports(chn, profiles) ==
    IF chn = <<>>
    THEN <<>>
    ELSE ImportsInBlocks(BlocksOf(Head(chn), profiles), Head(chn), 1)
         \o collectBomImports(Tail(chn), profiles)

\* getLocalRepoPaths(): the repositories of the machine, here a single one.
LocalRepoPaths == <<"repository">>

\* <repo>/<groupPath>/<artifactId>/<version>/<artifactId>-<version>.pom
RepoPath(repo, dep, version) ==
    [dir |-> <<repo>> \o dep.groupId \o dep.artifactId, version |-> version]

RECURSIVE FirstExisting(_, _, _, _)
FirstExisting(fsys, dep, version, i) ==
    IF i > Len(LocalRepoPaths)
    THEN Undef
    ELSE IF RepoPath(LocalRepoPaths[i], dep, version) \in DOMAIN fsys
         THEN <<RepoPath(LocalRepoPaths[i], dep, version)>>
         ELSE FirstExisting(fsys, dep, version, i + 1)

\* null is Undef, a path p is <<p>>.
resolveBomPath(fsys, chn, profiles, dep) ==
    IF ~TruthyText(dep.version)
    THEN Undef
    ELSE FirstExisting(fsys, dep,
                       FirstTruthy(resolvePropertyValue(chn, profiles, dep.version), dep.version), 1)

\* The import is passed over.
Skip_VisitedIgnored(bomPath, visitedBomPaths) == bomPath = Undef

\* if (!bomPath || visitedBomPaths.has(bomPath)) continue;
Skip(bomPath, visitedBomPaths) == bomPath = Undef \/ bomPath[1] \in visitedBomPaths

findBomImportLocation(sourcePom, bomDep, ref) ==
    IF findDependencyLine(sourcePom.xml, bomDep.groupId, bomDep.artifactId, "dependencyManagement") = <<>>
    THEN <<>>
    ELSE <<PomLocation(ref, sourcePom.file,
                       findDependencyLine(sourcePom.xml, bomDep.groupId, bomDep.artifactId,
                                          "dependencyManagement")[1],
                       "bomImport")>>

\* The locations of a match in the manifest bomPom (lines 500-529).
BomMatchLocations(nestedChain, profiles, bomPom, bomDep, match, ref) ==
    dedupeLocations(
        findBomImportLocation(bomDep.sourcePom, bomDep, ref + 1)
        \o <<PomLocation(ref + 2, bomPom.file,
                         findVersionLine(bomPom.xml, match.groupId, match.artifactId,
                                         "dependencyManagement"),
                         "bom")>>
        \o PropertyLocationOf(nestedChain, profiles, match.version, ref + 3)
        \o (IF Resolves(nestedChain, profiles, bomPom, match.version)
            THEN PropertyLocationOf(nestedChain, profiles, match.version, ref + 4)
            ELSE <<>>))

\* A call of resolveFromBomImportsRecursive: its chain, its bomDeps and the
\* position of its for loop.
Frame(chn, bomDeps) == [chain |-> chn, bomDeps |-> bomDeps, k |-> 1]

Top(stack) == Last(stack)

Continue(stack) == [stack EXCEPT ![Len(stack)].k = @ + 1]

\* After readPom(bomPath): return the match, descend into the manifest's own
\* imports, or go on with the next import.
AfterRead(bm, profiles, dep, bomPom, ref) ==
    IF Matched(findDepInPom(bomPom, dep, profiles, "dependencyManagement"))
    THEN [bm EXCEPT
            !.stack = Front(@),
            !.ret = <<BomMatchLocations(<<bomPom>> \o Top(bm.stack).chain, profiles, bomPom,
                                        Top(bm.stack).bomDeps[Top(bm.stack).k],
                                        findDepInPom(bomPom, dep, profiles, "dependencyManagement")[1],
                                        ref)>>]
    ELSE IF collectBomImports(<<bomPom>>, profiles) /= <<>>
    THEN [bm EXCEPT
            !.stack = Append(@, Frame(<<bomPom>> \o Top(bm.stack).chain,
                                      collectBomImports(<<bomPom>>, profiles)))]
    ELSE [bm EXCEPT !.stack = Continue(@)]

\* readPom(bomPath) throws: the file is there and cannot be read.
ReadFails(fsys, bm, bomPath) == ~Skip(bomPath, bm.visited) /\ ~Readable(fsys, bomPath[1])

\* One iteration of the for loop over bomDeps.
VisitBom(fsys, bm, profiles, dep, bomPath, ref) ==
    IF Skip(bomPath, bm.visited)
    THEN [bm EXCEPT !.stack = Continue(@)]
    ELSE AfterRead([bm EXCEPT !.visited = @ \cup {bomPath[1]}, !.reads = Append(@, bomPath[1])],
                   profiles, dep, readPom(fsys, bomPath[1]), ref)

\* The caller's import location put behind the nested call's locations.
NestedReturn_Behind(bomDep, nestedLocations, ref) ==
    dedupeLocations(nestedLocations \o findBomImportLocation(bomDep.sourcePom, bomDep, ref))

\* The caller's return when the nested call found the dependency (lines 542-547).
NestedReturn(bomDep, nestedLocations, ref) ==
    IF findBomImportLocation(bomDep.sourcePom, bomDep, ref) = <<>>
    THEN nestedLocations
    ELSE dedupeLocations(findBomImportLocation(bomDep.sourcePom, bomDep, ref) \o nestedLocations)

\* resolveFromBoms([pom], ...): a new visited set and the first call.
StartSearch(pom, profiles) ==
    [stack |-> <<Frame(<<pom>>, collectBomImports(<<pom>>, profiles))>>,
     visited |-> {}, reads |-> <<>>, ret |-> <<>>]

\* ------------------------------------------------------ resolveVersionOrigin
resolveFromEffectivePom(fsys, effectivePomPath, dep, ref) ==
    IF ~Readable(fsys, effectivePomPath)
    THEN <<>>
    ELSE IF FindEntry(normalizeDependencies(fsys[effectivePomPath].items, <<>>, "dependencyManagement"), dep) /= <<>>
    THEN <<PomLocation(ref, effectivePomPath,
                       findVersionLine(fsys[effectivePomPath].items, dep.groupId, dep.artifactId,
                                       "dependencyManagement"),
                       "effectivePom")>>
    ELSE IF FindEntry(normalizeDependencies(fsys[effectivePomPath].items, <<>>, "dependency"), dep) /= <<>>
    THEN <<PomLocation(ref, effectivePomPath,
                       findVersionLine(fsys[effectivePomPath].items, dep.groupId, dep.artifactId,
                                       "dependency"),
                       "effectivePom")>>
    ELSE <<>>

\* The loop that follows a loop over the chain.
NextLoop(loop) ==
    IF loop = "origin.managed" THEN "origin.direct"
    ELSE IF loop = "origin.direct" THEN "origin.rescan"
    ELSE "origin.effective"

\* Position after the iteration i of a loop found nothing.
PcAfter(loop, i) == IF i < Len(chain) THEN loop ELSE NextLoop(loop)

IndexAfter(i) == IF i < Len(chain) THEN i + 1 ELSE 1

\* buildPomChain, one iteration: read `current`, then follow its parent
\* reference while the parent file exists.  readFile throws on a missing
\* start file and on a file that cannot be read, and nothing catches it.
ReadChainPom ==
    /\ pc = "origin.chain"
    /\ Len(chain) < MaxChain
    /\ IF ~Readable(files, cursor.current[1])
       THEN /\ pc' = "origin.raised"
            /\ UNCHANGED <<chain, cursor>>
       ELSE /\ chain' = Append(chain, readPom(files, cursor.current[1]))
            /\ IF \/ readPom(files, cursor.current[1]).parentPath = Undef
                  \/ readPom(files, cursor.current[1]).parentPath[1] \notin DOMAIN files
               THEN /\ pc' = IF Truthy(request.dep.managedFromVersion)
                             THEN "origin.managed" ELSE "origin.direct"
                    /\ cursor' = [cursor EXCEPT !.current = <<>>]
               ELSE /\ pc' = pc
                    /\ cursor' = [cursor EXCEPT !.current = readPom(files, cursor.current[1]).parentPath]
    /\ UNCHANGED <<engineVars, indexVars, files, request, bom, locations, allocated, interp, locator>>

\* One iteration of a loop over the chain that looks for a version-management
\* entry and, failing that, searches the document's manifest imports.
ManagementPass(loop) ==
    /\ IF Matched(findDepInPom(chain[cursor.i], request.dep, request.profiles, "dependencyManagement"))
       THEN /\ locations' = locations \o
                  MatchLocations(chain, request.profiles, chain[cursor.i],
                                 findDepInPom(chain[cursor.i], request.dep, request.profiles,
                                              "dependencyManagement")[1],
                                 "dependencyManagement", allocated)
            /\ pc' = "origin.done"
            /\ UNCHANGED <<cursor, bom>>
       ELSE /\ bom' = StartSearch(chain[cursor.i], request.profiles)
            /\ cursor' = [cursor EXCEPT !.back = loop]
            /\ pc' = "origin.bom"
            /\ UNCHANGED locations
    /\ allocated' = allocated + 3
    /\ UNCHANGED <<engineVars, indexVars, files, request, chain, interp, locator>>

\* if (dep.managedFromVersion) for (const pom of chain) {...}   (lines 63-100)
ManagedLookup ==
    /\ pc = "origin.managed"
    /\ ManagementPass("origin.managed")

\* for (const pom of chain) {...}   (lines 134-169)
RescanLookup ==
    /\ pc = "origin.rescan"
    /\ ManagementPass("origin.rescan")

\* for (const pom of chain) {...}   (lines 102-132)
DirectLookup ==
    /\ pc = "origin.direct"
    /\ IF Matched(findDepInPom(chain[cursor.i], request.dep, request.profiles, "dependency"))
       THEN /\ locations' = locations \o
                  MatchLocations(chain, request.profiles, chain[cursor.i],
                                 findDepInPom(chain[cursor.i], request.dep, request.profiles,
                                              "dependency")[1],
                                 "dependency", allocated)
            /\ pc' = "origin.done"
            /\ UNCHANGED cursor
       ELSE /\ pc' = PcAfter("origin.direct", cursor.i)
            /\ cursor' = [cursor EXCEPT !.i = IndexAfter(@)]
            /\ UNCHANGED locations
    /\ allocated' = allocated + 3
    /\ UNCHANGED <<engineVars, indexVars, files, request, chain, bom, interp, locator>>

\* resolveFromBomImportsRecursive: one iteration of the for loop of the
\* innermost call.
BomVisit ==
    /\ pc = "origin.bom"
    /\ bom.ret = <<>>
    /\ bom.stack /= <<>>
    /\ Len(bom.stack) <= MaxBomDepth
    /\ Top(bom.stack).k <= Len(Top(bom.stack).bomDeps)
    /\ IF ReadFails(files, bom,
                    resolveBomPath(files, Top(bom.stack).chain, request.profiles,
                                   Top(bom.stack).bomDeps[Top(bom.stack).k]))
       THEN /\ pc' = "origin.raised"
            /\ UNCHANGED bom
       ELSE /\ pc' = pc
            /\ bom' = VisitBom(files, bom, request.profiles, request.dep,
                               resolveBomPath(files, Top(bom.stack).chain, request.profiles,
                                              Top(bom.stack).bomDeps[Top(bom.stack).k]),
                               allocated)
    /\ allocated' = allocated + 4
    /\ UNCHANGED <<engineVars, indexVars, files, request, chain, cursor, locations, interp, locator>>

\* The innermost call has gone through its bomDeps: return [].
BomReturn ==
    /\ pc = "origin.bom"
    /\ bom.ret = <<>>
    /\ bom.stack /= <<>>
    /\ Top(bom.stack).k > Len(Top(bom.stack).bomDeps)
    /\ bom' = [bom EXCEPT !.stack = Front(@), !.ret = << <<>> >>]
    /\ UNCHANGED <<pc, engineVars, indexVars, files, request, chain, cursor, locations, allocated, interp, locator>>

\* A call receives nestedLocations: it returns them behind its own import
\* location, or goes on with its next import if there are none.
BomResume ==
    /\ pc = "origin.bom"
    /\ bom.ret /= <<>>
    /\ bom.stack /= <<>>
    /\ bom' = IF bom.ret[1] /= <<>>
              THEN [bom EXCEPT
                      !.stack = Front(@),
                      !.ret = <<NestedReturn(Top(bom.stack).bomDeps[Top(bom.stack).k], bom.ret[1],
                                             allocated + 1)>>]
              ELSE [bom EXCEPT !.stack = Continue(@), !.ret = <<>>]
    /\ allocated' = allocated + 1
    /\ UNCHANGED <<pc, engineVars, indexVars, files, request, chain, cursor, locations, interp, locator>>

\* resolveFromBoms has returned to the loop that called it:
\* if (bomLocations.length > 0) return bomLocations; else the next document.
BomFinish ==
    /\ pc = "origin.bom"
    /\ bom.ret /= <<>>
    /\ bom.stack = <<>>
    /\ IF bom.ret[1] /= <<>>
       THEN /\ locations' = bom.ret[1]
            /\ pc' = "origin.done"
            /\ UNCHANGED cursor
       ELSE /\ pc' = PcAfter(cursor.back, cursor.i)
            /\ cursor' = [cursor EXCEPT !.i = IndexAfter(@)]
            /\ UNCHANGED locations
    /\ bom' = [bom EXCEPT !.ret = <<>>]
    /\ UNCHANGED <<engineVars, indexVars, files, request, chain, allocated, interp, locator>>

\* if (options?.effectivePomPath) {...} return locations;   (lines 171-178)
EffectiveLookup ==
    /\ pc = "origin.effective"
    /\ locations' = IF request.effectivePomPath /= Undef
                    THEN locations \o resolveFromEffectivePom(files, request.effectivePomPath[1],
                                                              request.dep, allocated + 1)
                    ELSE locations
    /\ allocated' = allocated + 1
    /\ pc' = "origin.done"
    /\ UNCHANGED <<engineVars, indexVars, files, request, chain, cursor, bom, interp, locator>>

NextOrigin ==
    \/ ReadChainPom
    \/ ManagedLookup
    \/ DirectLookup
    \/ RescanLookup
    \/ BomVisit
    \/ BomReturn
    \/ BomResume
    \/ BomFinish
    \/ EffectiveLookup

\* ------------------------------------------------- resolveVersionOrigin inputs
\* The dependency looked up: g:a, with or without a managed-from annotation.
TargetNode(managed) ==
    IF managed
    THEN WithAnnotations(createNode(<<"g", "a", "jar", "1.2.3", "compile">>),
                         [managedFromVersion |-> <<"1.5">>, omittedReason |-> Undef,
                          conflictWithVersion |-> Undef])
    ELSE createNode(<<"g", "a", "jar", "1.2.3", "compile">>)

EffectivePom == PomPath(<<"p", "m", "target">>)

ManifestPath(artifactId) ==
    [dir |-> <<"repository", "bg", artifactId>>, version |-> <<Lit("1.2.3")>>]

\* <dependency> g:a with a literal version, the version ${v}, or absent.
TargetEntry(how, section) ==
    Opt(how /= "none",
        DependencyItem(<<>>, section, <<"g">>, <<"a">>,
                       IF how = "literal" THEN <<Lit("2.0.0")>>
                       ELSE IF how = "reference" THEN <<Ref("v")>> ELSE Undef,
                       "", ""))

ImportEntry(artifactId) ==
    DependencyItem(<<>>, "dependencyManagement", <<"bg">>, <<artifactId>>, <<Lit("1.2.3")>>,
                   "pom", "import")

ImportEntries(artifactIds) == [i \in 1..Len(artifactIds) |-> ImportEntry(artifactIds[i])]

VersionProperty(where) ==
    Opt(where /= "none",
        PropertyItem(IF where = "p1" THEN <<"p1">> ELSE <<>>, "v", <<Lit("1.2")>>))

OriginModule(a, hasParent) ==
    Document("m", <<Lit("0.0.1")>>,
             IF hasParent THEN ParentRef(<<Lit("0.0.1")>>, "") ELSE <<>>,
             ImportEntries(a.imports)
             \o TargetEntry(a.managed, "dependencyManagement")
             \o TargetEntry(a.direct, "dependency")
             \o VersionProperty(a.v))

OriginParent(b) ==
    Document("p", <<Lit("0.0.1")>>, <<>>,
             TargetEntry(b.managed, "dependencyManagement") \o VersionProperty(b.v))

Manifest(artifactId, m) ==
    Document(artifactId, <<Lit("1.2.3")>>, <<>>,
             ImportEntries(m.imports)
             \o TargetEntry(m.managed, "dependencyManagement")
             \o VersionProperty(m.v))

EffectiveDocument(section) ==
    Document("m", <<Lit("0.0.1")>>, <<>>, TargetEntry("literal", section))

Absent == <<>>

FileAt(path, present, document) == IF present THEN (path :> document) ELSE <<>>

OriginFiles(sc) ==
    FileAt(ModulePom, TRUE, OriginModule(sc.module, sc.parent /= Absent))
    @@ FileAt(ParentPom, sc.parent /= Absent, OriginParent(sc.parent[1]))
    @@ FileAt(ManifestPath("m1"), sc.m1 /= Absent, Manifest("m1", sc.m1[1]))
    @@ FileAt(ManifestPath("m2"), sc.m2 /= Absent, Manifest("m2", sc.m2[1]))
    @@ FileAt(EffectivePom, sc.effective \in {"dependencyManagement", "dependency"},
              EffectiveDocument(sc.effective))

Present(choices) == {<<c>> : c \in choices}

\* Documents of the project with every combination of entries for g:a, and
\* imports of manifests that are not in the repository.
ChainScenarios ==
    [module : [direct : {"none", "literal", "reference"},
               managed : {"none", "literal", "reference"},
               imports : {<<>>, <<"m1">>},
               v : {"none", "top"}],
     parent : {Absent} \cup Present([managed : {"none", "reference"}, v : {"none", "top", "p1"}]),
     managed : BOOLEAN,
     effective : {"none", "missing", "dependencyManagement", "dependency"},
     profiles : {<<>>, <<"p1">>},
     m1 : {Absent},
     m2 : {Absent}]

\* A project that imports manifests which manage g:a or not and import one
\* another, themselves included.
ManifestScenarios ==
    [module : [direct : {"none"},
               managed : {"none"},
               imports : {<<"m1">>, <<"m1", "m2">>},
               v : {"none", "top"}],
     parent : {Absent} \cup Present([managed : {"none"}, v : {"top"}]),
     managed : BOOLEAN,
     effective : {"none"},
     profiles : {<<>>},
     m1 : {Absent} \cup Present([managed : {"none", "literal", "reference"},
                                 imports : {<<>>, <<"m2">>, <<"m1">>, <<"m1", "m2">>},
                                 v : {"none", "top"}]),
     m2 : {Absent} \cup Present([managed : {"none", "literal"},
                                 imports : {<<>>, <<"m1">>},
                                 v : {"none"}])]

\* A node with a managed-from annotation in a project whose module imports a
\* manifest and whose parent has a version-management entry, each managing
\* g:a or not.
NearestScenarios ==
    [module : [direct : {"none"},
               managed : {"none", "literal"},
               imports : {<<>>, <<"m1">>},
               v : {"none"}],
     parent : Present([managed : {"none", "literal"}, v : {"none"}]),
     managed : {TRUE},
     effective : {"none"},
     profiles : {<<>>},
     m1 : {Absent} \cup Present([managed : {"none", "literal"}, imports : {<<>>}, v : {"none"}]),
     m2 : {Absent}]

\* The file at `path`: absent, there but not readable, or the document.
FileIn(path, state, document) ==
    IF state = "absent" THEN <<>>
    ELSE IF state = "unreadable" THEN (path :> Unreadable)
    ELSE (path :> document)

\* A module that names a parent and imports the manifest m1, which manages
\* g:a; each of the three files and the effective pom is absent, unreadable
\* or in order.
FaultFiles(sc) ==
    FileIn(ModulePom, sc.module,
           OriginModule([direct |-> "none", managed |-> "none", imports |-> <<"m1">>, v |-> "none"], TRUE))
    @@ FileIn(ParentPom, sc.parent, OriginParent([managed |-> "none", v |-> "none"]))
    @@ FileIn(ManifestPath("m1"), sc.m1,
              Manifest("m1", [managed |-> sc.manages, imports |-> <<>>, v |-> "none"]))
    @@ FileIn(EffectivePom, sc.effective, EffectiveDocument("dependency"))

FaultScenarios ==
    [module : {"absent", "unreadable", "present"},
     parent : {"absent", "unreadable", "present"},
     m1 : {"absent", "unreadable", "present"},
     manages : {"none", "literal"},
     effective : {"absent", "unreadable", "present"},
     managed : BOOLEAN]

\* An element of the profile block `block`: a version-management entry or a
\* direct entry for g:a, the property v, or the import of the manifest m1.
ProfileEntry(block, what) ==
    IF what = "managed"
    THEN DependencyItem(block, "dependencyManagement", <<"g">>, <<"a">>, <<Lit("3.0.0")>>, "", "")
    ELSE IF what = "direct"
    THEN DependencyItem(block, "dependency", <<"g">>, <<"a">>, <<Lit("3.0.0")>>, "", "")
    ELSE IF what = "property"
    THEN PropertyItem(block, "v", <<Lit("1.2")>>)
    ELSE DependencyItem(block, "dependencyManagement", <<"bg">>, <<"m1">>, <<Lit("1.2.3")>>,
                        "pom", "import")

ProfileEntries(block, inside) ==
    Opt("import" \in inside, ProfileEntry(block, "import"))
    \o Opt("managed" \in inside, ProfileEntry(block, "managed"))
    \o Opt("direct" \in inside, ProfileEntry(block, "direct"))
    \o Opt("property" \in inside, ProfileEntry(block, "property"))

\* A module without parent whose one profile block (with the id p1, or with
\* no id) holds any of the four elements, and which itself declares g:a with
\* the version ${v} or not at all; the manifest m1 manages g:a.
ProfileFiles(sc) ==
    (ModulePom :> Document("m", <<Lit("0.0.1")>>, <<>>,
                           TargetEntry(sc.top, "dependency")
                           \o ProfileEntries(sc.block, sc.inside)))
    @@ (ManifestPath("m1") :> Manifest("m1", [managed |-> "literal", imports |-> <<>>, v |-> "none"]))

\* A module whose <parent> has the relativePath pom.xml, its own file.
SelfParentFiles ==
    ModulePom :> Document("m", <<Lit("0.0.1")>>, ParentRef(<<Lit("0.0.1")>>, "pom.xml"),
                          TargetEntry("literal", "dependency"))

\* A module that imports the manifest m1 with the version ${bv}; bv is 1.2.3
\* in the module itself or in its parent; m1 manages g:a.
ImportRefFiles(where) ==
    (ModulePom :> Document("m", <<Lit("0.0.1")>>, ParentRef(<<Lit("0.0.1")>>, ""),
                           <<DependencyItem(<<>>, "dependencyManagement", <<"bg">>, <<"m1">>,
                                            <<Ref("bv")>>, "pom", "import")>>
                           \o Opt(where = "module", PropertyItem(<<>>, "bv", <<Lit("1.2.3")>>))))
    @@ (ParentPom :> Document("p", <<Lit("0.0.1")>>, <<>>,
                              Opt(where = "parent", PropertyItem(<<>>, "bv", <<Lit("1.2.3")>>))))
    @@ (ManifestPath("m1") :> Manifest("m1", [managed |-> "literal", imports |-> <<>>, v |-> "none"]))

ProfileScenarios ==
    [block : {<<"p1">>, <<"">>},
     inside : SUBSET {"managed", "direct", "property", "import"},
     top : {"none", "reference"},
     profiles : {<<>>, <<"p1">>, <<"p2">>},
     managed : BOOLEAN]

InitOrigin ==
    /\ pc = "origin.chain"
    /\ IdleCoord /\ IdleTree /\ IdleGraph /\ IdleIndex
    /\ index = NoIndex
    /\ interp = <<>>
    /\ IdleLocator
    /\ \/ \E sc \in ChainScenarios \cup ManifestScenarios \cup NearestScenarios :
             /\ files = OriginFiles(sc)
             /\ request = [pomPath |-> ModulePom,
                           dep |-> TargetNode(sc.managed),
                           effectivePomPath |-> IF sc.effective = "none" THEN Undef ELSE <<EffectivePom>>,
                           profiles |-> sc.profiles]
       \/ \E sc \in FaultScenarios :
             /\ files = FaultFiles(sc)
             /\ request = [pomPath |-> ModulePom,
                           dep |-> TargetNode(sc.managed),
                           effectivePomPath |-> <<EffectivePom>>,
                           profiles |-> <<>>]
       \/ \E sc \in ProfileScenarios :
             /\ files = ProfileFiles(sc)
             /\ request = [pomPath |-> ModulePom,
                           dep |-> TargetNode(sc.managed),
                           effectivePomPath |-> Undef,
                           profiles |-> sc.profiles]
       \/ \E where \in {"module", "parent"}, managed \in BOOLEAN :
             /\ files = ImportRefFiles(where)
             /\ request = [pomPath |-> ModulePom,
                           dep |-> TargetNode(managed),
                           effectivePomPath |-> Undef,
                           profiles |-> <<>>]
       \/ /\ files = SelfParentFiles
          /\ request = [pomPath |-> ModulePom,
                        dep |-> TargetNode(FALSE),
                        effectivePomPath |-> Undef,
                        profiles |-> <<>>]
    /\ chain = <<>>
    /\ cursor = [current |-> <<ModulePom>>, i |-> 1, back |-> ""]
    /\ bom = [stack |-> <<>>, visited |-> {}, reads |-> <<>>, ret |-> <<>>]
    /\ locations = <<>>
    /\ allocated = 0

SpecOrigin == InitOrigin /\ [][NextOrigin]_vars

\* The file at `path` imports the manifest bg:<artifactId>.
Imports(path, artifactId) ==
    \E i \in 1..Len(files[path].items) :
        /\ files[path].items[i].kind = "dependency"
        /\ files[path].items[i].section = "dependencyManagement"
        /\ files[path].items[i].artifactId = <<artifactId>>
        /\ files[path].items[i].scope = "import"

\* No file of the repository has a version-management entry with a version
\* for the dependency looked up.
NoManifestManages ==
    \A path \in DOMAIN files : (path.version /= Undef /\ Readable(files, path)) =>
        ~\E i \in 1..Len(files[path].items) :
            /\ files[path].items[i].kind = "dependency"
            /\ files[path].items[i].section = "dependencyManagement"
            /\ files[path].items[i].groupId = request.dep.groupId
            /\ files[path].items[i].artifactId = request.dep.artifactId
            /\ TruthyText(files[path].items[i].version)

SearchReturned == pc = "origin.bom" /\ bom.stack = <<>> /\ bom.ret /= <<>>

\* A search that is under way can take its next step.
SearchCanStep == bom.ret /= <<>> \/ (bom.stack /= <<>> /\ Len(bom.stack) <= MaxBomDepth)

\* Loop iterations the calls on the stack still have to make.
RECURSIVE Remaining(_)
Remaining(stack) ==
    IF stack = <<>>
    THEN 0
    ELSE (Len(Head(stack).bomDeps) + 1 - Head(stack).k) + Remaining(Tail(stack))

\* More than three times the imports any one document declares.
Weight ==
    3 * (1 + Cardinality(UNION {DOMAIN files[path].items : path \in {f \in DOMAIN files : Readable(files, f)}}))

\* A natural number that every step of a search lowers: the manifests not yet
\* read count most, then the iterations left, then a return not yet made.
SearchRank ==
    Weight * Cardinality({path \in DOMAIN files : path.version /= Undef} \ bom.visited)
    + 3 * Remaining(bom.stack)
    + (IF bom.ret = <<>> THEN 1 ELSE 0)

\* C5: a search of the manifest imports ends, whatever the manifests import
\* (one another and themselves included): it can always take a step and each
\* step lowers a natural number; it reads no manifest path twice; and it
\* returns the empty list when no manifest manages the dependency.
C5_ImportSearchTerminates ==
    /\ [](pc = "origin.bom" => (SearchCanStep /\ SearchRank >= 0))
    /\ [][(pc = "origin.bom" /\ pc' = "origin.bom") => SearchRank' < SearchRank]_vars
    /\ [](pc = "origin.bom" => NoDuplicates(bom.reads))
    /\ []((SearchReturned /\ NoManifestManages) => bom.ret[1] = <<>>)

\* M1 imports M2 and M2 imports M1, neither manages g:a: the search has read
\* each once and returned the empty list.
C5_Witness ==
    /\ SearchReturned
    /\ bom.ret[1] = <<>>
    /\ bom.reads = <<ManifestPath("m1"), ManifestPath("m2")>>
    /\ Imports(ManifestPath("m1"), "m2")
    /\ Imports(ManifestPath("m2"), "m1")
    /\ NoManifestManages

\* The fields by which two locations are the same place.
Place4(location) ==
    [kind |-> location.kind, file |-> location.file, line |-> location.line,
     column |-> location.column]

Places(locs) == [i \in 1..Len(locs) |-> Place4(locs[i])]

\* C9: with chain [A, B], A declaring the direct dependency g:a with version
\* ${v}, B defining the property v and the node carrying no managed-from
\* annotation, resolveVersionOrigin returns the direct-dependency location in
\* A followed by the property location in B, and nothing else.
C9_DirectThenProperty ==
    ( /\ pc = "origin.done"
      /\ Len(chain) = 2
      /\ ~Truthy(request.dep.managedFromVersion)
      /\ \E i \in 1..Len(chain[1].dependencies) :
            /\ chain[1].dependencies[i].groupId = request.dep.groupId
            /\ chain[1].dependencies[i].artifactId = request.dep.artifactId
            /\ chain[1].dependencies[i].version = <<Ref("v")>>
      /\ "v" \notin DOMAIN chain[1].properties
      /\ "v" \in DOMAIN chain[2].properties )
    => /\ Len(locations) = 2
       /\ locations[1].kind = "dependency" /\ locations[1].file = chain[1].file
       /\ locations[2].kind = "property" /\ locations[2].file = chain[2].file

\* C10: the list resolveVersionOrigin returns holds no two locations equal in
\* (kind, file, line, column), whichever strategy produced it.
C10_NoDuplicateLocations ==
    pc = "origin.done" => NoDuplicates(Places(locations))

\* The i-th document of the chain has, in itself or in an active profile, a
\* version-management entry with a version for the dependency looked up.
ManagesIn(i) ==
    Matched(findDepInPom(chain[i], request.dep, request.profiles, "dependencyManagement"))

\* The nearest document of the chain with such an entry.
Nearest == CHOOSE i \in 1..Len(chain) : ManagesIn(i) /\ \A j \in 1..(i - 1) : ~ManagesIn(j)

\* C11: for a node with a managed-from annotation, when some document of the
\* chain has a version-management entry with a version for it, the first
\* location returned is the version-management location in the nearest such
\* document, and no imported manifest is read.
C11_ManagementBeforeImports ==
    ( /\ pc \in {"origin.bom", "origin.done"}
      /\ Truthy(request.dep.managedFromVersion)
      /\ \E i \in 1..Len(chain) : ManagesIn(i) )
    => /\ bom.reads = <<>>
       /\ pc = "origin.done" =>
             /\ locations /= <<>>
             /\ locations[1].kind = "dependencyManagement"
             /\ locations[1].file = chain[Nearest].file

\* ------------------------------------------- DependencyIndex: jump to origin
\* a || b for two strings.
OrElse(a, b) == IF Truthy(a) THEN a ELSE b

\* (n.classifier || '') === (dep.classifier || '')
SameArtifact(n, dep) ==
    /\ n.groupId = dep.groupId
    /\ n.artifactId = dep.artifactId
    /\ OrElse(n.classifier, <<"">>) = OrElse(dep.classifier, <<"">>)

ManagedValue(n) == OrElse(n.managedFromVersion, extractManagedFromOmitted(n.omittedReason))

\* The first sibling, in key order from position i, with a managed-from value.
RECURSIVE SiblingValue(_, _, _)
SiblingValue(idx, dep, i) ==
    IF i > Len(idx.keys)
    THEN <<"">>
    ELSE IF SameArtifact(idx.nodes[idx.keys[i]], dep) /\ Truthy(ManagedValue(idx.nodes[idx.keys[i]]))
         THEN ManagedValue(idx.nodes[idx.keys[i]])
         ELSE SiblingValue(idx, dep, i + 1)

collectManagedFromVersion(idx, dep) ==
    IF Truthy(ManagedValue(dep)) THEN ManagedValue(dep) ELSE SiblingValue(idx, dep, 1)

\* { ...dep, managedFromVersion: dep.managedFromVersion || managedFrom }: a copy.
depForOrigin(idx, dep) ==
    [dep EXCEPT !.managedFromVersion = OrElse(@, collectManagedFromVersion(idx, dep))]

\* The queue entries for the parents not yet visited, in order.
RECURSIVE QueueParents(_, _, _, _)
QueueParents(parents, i, path, st) ==
    IF i > Len(parents)
    THEN st
    ELSE IF parents[i] \in st.visited
         THEN QueueParents(parents, i + 1, path, st)
         ELSE QueueParents(parents, i + 1, path,
                           [queue |-> Append(st.queue, [id |-> parents[i], path |-> Append(path, parents[i])]),
                            visited |-> st.visited \cup {parents[i]}])

RECURSIVE ShortestLoop(_, _)
ShortestLoop(idx, st) ==
    IF st.queue = <<>>
    THEN <<>>
    ELSE IF Head(st.queue).id \notin DOMAIN idx.nodes
    THEN Head(st.queue).path
    ELSE IF idx.nodes[Head(st.queue).id].parents = <<>>
    THEN Head(st.queue).path
    ELSE ShortestLoop(idx, QueueParents(idx.nodes[Head(st.queue).id].parents, 1, Head(st.queue).path,
                                        [queue |-> Tail(st.queue), visited |-> st.visited]))

findShortestPathToRoot(idx, id) ==
    IF id \notin DOMAIN idx.nodes
    THEN <<>>
    ELSE ShortestLoop(idx, [queue |-> <<[id |-> id, path |-> <<id>>]>>, visited |-> {id}])

\* The first candidate with the version asked for: <<>> if none.
ExactVersion(candidates, version) ==
    FirstOf(SelectSeq(candidates, LAMBDA c : TruthyText(c.version) /\ c.version = <<Lit(version[1])>>))

\* workspace: "groupId:artifactId" -> the workspace pom files with these
\* coordinates.  null is <<>>, a path p is <<p>>.
findWorkspacePomForId(workspace, id) ==
    IF <<parseCoord(id).groupId, parseCoord(id).artifactId>> \notin DOMAIN workspace
    THEN <<>>
    ELSE IF /\ Truthy(parseCoord(id).version)
            /\ parseCoord(id).version /= <<"unknown">>
            /\ ExactVersion(workspace[<<parseCoord(id).groupId, parseCoord(id).artifactId>>],
                            parseCoord(id).version) /= <<>>
    THEN <<ExactVersion(workspace[<<parseCoord(id).groupId, parseCoord(id).artifactId>>],
                        parseCoord(id).version)[1].pomPath>>
    ELSE <<workspace[<<parseCoord(id).groupId, parseCoord(id).artifactId>>][1].pomPath>>

findPomInLocalRepositories(fsys, c) ==
    IF ~Truthy(c.groupId) \/ ~Truthy(c.artifactId) \/ ~Truthy(c.version) \/ c.version = <<"unknown">>
    THEN <<>>
    ELSE FirstExisting(fsys, c, <<Lit(c.version[1])>>, 1)

\* A pom file to open for the id: a workspace module's pom, else the pom in a
\* local repository.  No remote repository answers, so includeRemote adds
\* nothing.
resolvePomTargetById(fsys, workspace, id, includeRemote) ==
    IF findWorkspacePomForId(workspace, id) /= <<>>
    THEN <<[file |-> findWorkspacePomForId(workspace, id)[1], location |-> <<>>, readonly |-> FALSE]>>
    ELSE IF findPomInLocalRepositories(fsys, parseCoord(id)) /= <<>>
    THEN <<[file |-> findPomInLocalRepositories(fsys, parseCoord(id))[1], location |-> <<>>,
            readonly |-> TRUE]>>
    ELSE <<>>

findDependencyDeclaration(fsys, pomPath, groupId, artifactId, ref) ==
    IF ~Readable(fsys, pomPath)
    THEN <<>>
    ELSE IF findDependencyLine(fsys[pomPath].items, groupId, artifactId, "dependency") /= <<>>
    THEN <<PomLocation(ref, pomPath,
                       findDependencyLine(fsys[pomPath].items, groupId, artifactId, "dependency")[1],
                       "dependency")>>
    ELSE IF findDependencyLine(fsys[pomPath].items, groupId, artifactId, "dependencyManagement") /= <<>>
    THEN <<PomLocation(ref, pomPath,
                       findDependencyLine(fsys[pomPath].items, groupId, artifactId,
                                          "dependencyManagement")[1],
                       "dependencyManagement")>>
    ELSE <<>>

\* The declaration of `id` in the target's file, else the target itself.
WithDeclaration(fsys, target, c, ref) ==
    IF /\ Truthy(c.groupId) /\ Truthy(c.artifactId)
       /\ findDependencyDeclaration(fsys, target.file, c.groupId, c.artifactId, ref) /= <<>>
    THEN [target EXCEPT
            !.location = findDependencyDeclaration(fsys, target.file, c.groupId, c.artifactId, ref)]
    ELSE target

\* The last resort: the declaration in the current pom.
InCurrentPom(fsys, currentPom, c, ref) ==
    IF /\ currentPom /= <<>> /\ Truthy(c.groupId) /\ Truthy(c.artifactId)
       /\ findDependencyDeclaration(fsys, currentPom[1], c.groupId, c.artifactId, ref) /= <<>>
    THEN <<[file |-> currentPom[1],
            location |-> findDependencyDeclaration(fsys, currentPom[1], c.groupId, c.artifactId, ref),
            readonly |-> FALSE]>>
    ELSE <<>>

\* prevId is <<>> when not given.  null is <<>>, a target t is <<t>>.
resolvePathNodeTarget(fsys, workspace, currentPom, id, prevId, includeRemote, ref) ==
    IF prevId /= <<>> /\ resolvePomTargetById(fsys, workspace, prevId[1], includeRemote) /= <<>>
    THEN <<WithDeclaration(fsys, resolvePomTargetById(fsys, workspace, prevId[1], includeRemote)[1],
                           parseCoord(id), ref)>>
    ELSE IF resolvePomTargetById(fsys, workspace, id, includeRemote) /= <<>>
    THEN resolvePomTargetById(fsys, workspace, id, includeRemote)
    ELSE InCurrentPom(fsys, currentPom, parseCoord(id), ref)

\* The workspace folder is the directory p.
isUnderWorkspace(filePath) == filePath.dir /= <<>> /\ Head(filePath.dir) = "p"

ManagementKinds == {"dependencyManagement", "bom", "property"}

\* locations.find(l => kind is dependencyManagement, bom or property) || locations[0]
Preferred(locs) ==
    IF SelectSeq(locs, LAMBDA l : l.kind \in ManagementKinds) /= <<>>
    THEN FirstOf(SelectSeq(locs, LAMBDA l : l.kind \in ManagementKinds))
    ELSE FirstOf(locs)

\* resolveDependencyLocateTarget after resolveVersionOrigin has returned.
LocateTarget(fsys, workspace, idx, id, locs, includeRemote, ref) ==
    IF Preferred(locs) /= <<>>
    THEN <<[file |-> Preferred(locs)[1].file, location |-> Preferred(locs),
            readonly |-> ~isUnderWorkspace(Preferred(locs)[1].file)]>>
    ELSE IF Len(findShortestPathToRoot(idx, id)) >= 2
    THEN resolvePathNodeTarget(fsys, workspace, <<idx.pomPath>>, id,
                               <<findShortestPathToRoot(idx, id)[2]>>, includeRemote, ref)
    ELSE resolvePathNodeTarget(fsys, workspace, <<idx.pomPath>>, id, <<>>, includeRemote, ref)

\* The value resolveManagedInfo returns: null is <<>>.
ManagedInfo(idx, dep, locs) ==
    IF /\ ~Truthy(collectManagedFromVersion(idx, dep))
       /\ SelectSeq(locs, LAMBDA l : l.kind \in ManagementKinds \cup {"bomImport"}) = <<>>
    THEN <<>>
    ELSE <<[managedFrom |-> collectManagedFromVersion(idx, dep),
            managedTo |-> dep.version,
            location |-> FirstOf(SelectSeq(locs, LAMBDA l : l.kind \in ManagementKinds)),
            bomImportLocation |-> FirstOf(SelectSeq(locs, LAMBDA l : l.kind = "bomImport")),
            managementChain |-> SelectSeq(locs, LAMBDA l : l.kind \in ManagementKinds \cup {"bomImport"})]>>

\* The call resolveVersionOrigin(pomPath, dep, { profiles }) the three
\* operations make: the options carry no effectivePomPath.
CallOrigin(op, id, dep) ==
    /\ pc = "locate.ready"
    /\ thisCurrent /= <<>>
    /\ request' = [pomPath |-> heap[thisCurrent[1]].pomPath,
                   dep |-> dep,
                   effectivePomPath |-> Undef,
                   profiles |-> heap[thisCurrent[1]].profiles]
    /\ cursor' = [current |-> <<heap[thisCurrent[1]].pomPath>>, i |-> 1, back |-> ""]
    /\ tasks' = <<[op |-> op, id |-> id]>>
    /\ calls' = calls + 1
    /\ pc' = "origin.chain"
    /\ UNCHANGED <<engineVars, files, chain, bom, locations, allocated, interp, locator,
                   heap, thisCurrent, pathTargetCache, disk, events, editor>>

\* openLocation(dep), lines 134-147.  The ancestors of the node that are
\* workspace modules have the current pom as their pom, so the current pom
\* is the one candidate.
OpenLocation ==
    \E id \in DOMAIN heap[thisCurrent[1]].nodes \ Range(heap[thisCurrent[1]].roots) :
        CallOrigin("openLocation", id, heap[thisCurrent[1]].nodes[id])

\* resolveDependencyLocateTarget(id, true), lines 380-397.
OpenDependencyLocate ==
    \E id \in DOMAIN heap[thisCurrent[1]].nodes \ Range(heap[thisCurrent[1]].roots) :
        CallOrigin("openDependencyLocate", id,
                   depForOrigin(heap[thisCurrent[1]], heap[thisCurrent[1]].nodes[id]))

\* resolveManagedInfo(id), lines 197-215.
ResolveManagedInfo ==
    \E id \in DOMAIN heap[thisCurrent[1]].nodes \ Range(heap[thisCurrent[1]].roots) :
        CallOrigin("resolveManagedInfo", id,
                   depForOrigin(heap[thisCurrent[1]], heap[thisCurrent[1]].nodes[id]))

Returned(op) == pc = "origin.done" /\ tasks /= <<>> /\ tasks[1].op = op

\* What an operation did: the location or file it opened, the value it
\* returned, or neither (a warning).
Outcome(op, opened, file, result) == [op |-> op, opened |-> opened, file |-> file, result |-> result]

\* openLocation, lines 149-161: openLocationInEditor(locations[0]).
OpenLocationReturn ==
    /\ Returned("openLocation")
    /\ editor' = Append(editor, Outcome("openLocation", FirstOf(locations), <<>>, <<>>))
    /\ pc' = "locate.done"
    /\ UNCHANGED <<engineVars, pomVars, heap, thisCurrent, pathTargetCache, tasks, calls, disk, events>>

\* openDependencyLocate, lines 169-184.
OpenDependencyLocateReturn ==
    /\ Returned("openDependencyLocate")
    /\ \E target \in {LocateTarget(files, disk.workspace, heap[thisCurrent[1]], tasks[1].id,
                                   locations, TRUE, allocated + 1)} :
          editor' = Append(editor,
                           IF target = <<>>
                           THEN Outcome("openDependencyLocate", <<>>, <<>>, <<>>)
                           ELSE Outcome("openDependencyLocate", target[1].location,
                                        IF target[1].location = <<>> THEN <<target[1].file>> ELSE <<>>,
                                        <<>>))
    /\ allocated' = allocated + 1
    /\ pc' = "locate.done"
    /\ UNCHANGED <<engineVars, files, request, chain, cursor, bom, locations, interp, locator,
                   heap, thisCurrent, pathTargetCache, tasks, calls, disk, events>>

\* resolveManagedInfo, lines 216-234.
ResolveManagedInfoReturn ==
    /\ Returned("resolveManagedInfo")
    /\ editor' = Append(editor,
                        Outcome("resolveManagedInfo", <<>>, <<>>,
                                ManagedInfo(heap[thisCurrent[1]],
                                            heap[thisCurrent[1]].nodes[tasks[1].id], locations)))
    /\ pc' = "locate.done"
    /\ UNCHANGED <<engineVars, pomVars, heap, thisCurrent, pathTargetCache, tasks, calls, disk, events>>

NextLocate ==
    \/ OpenLocation
    \/ OpenDependencyLocate
    \/ ResolveManagedInfo
    \/ ReadChainPom
    \/ ManagedLookup
    \/ DirectLookup
    \/ RescanLookup
    \/ BomVisit
    \/ BomReturn
    \/ BomResume
    \/ BomFinish
    \/ EffectiveLookup
    \/ OpenLocationReturn
    \/ OpenDependencyLocateReturn
    \/ ResolveManagedInfoReturn

TargetId == <<"g", "a", "jar", "1.2.3", "compile">>

ModuleId == <<"g", "m", "jar", "0.0.1">>

\* The index of the module m with the one dependency g:a, as reimport left it.
LocateIndex(sc) ==
    [pomPath |-> ModulePom,
     profiles |-> sc.profiles,
     pomHash |-> 1,
     effectivePomPath |-> IF sc.effective = "none" THEN Undef ELSE <<EffectivePom>>,
     nodes |-> (ModuleId :> [createNode(ModuleId) EXCEPT !.children = <<TargetId>>])
               @@ (TargetId :> [TargetNode(sc.managed) EXCEPT !.parents = <<ModuleId>>]),
     keys |-> <<ModuleId, TargetId>>,
     roots |-> <<ModuleId>>]

\* The workspace pom index: the module and, when there is one, its parent.
Workspace(sc) ==
    (<<<<"g">>, <<"m">>>> :> <<[pomPath |-> ModulePom, version |-> <<Lit("0.0.1")>>]>>)
    @@ (IF sc.parent = Absent
        THEN <<>>
        ELSE (<<<<"g">>, <<"p">>>> :> <<[pomPath |-> ParentPom, version |-> <<Lit("0.0.1")>>]>>))

\* A module with or without entries for g:a, an import of a manifest that
\* manages g:a or not, and an effective pom generated or not.
LocateScenarios ==
    [module : [direct : {"none", "literal", "reference"},
               managed : {"none", "literal"},
               imports : {<<>>, <<"m1">>},
               v : {"none", "top"}],
     parent : {Absent} \cup Present([managed : {"none"}, v : {"top"}]),
     managed : BOOLEAN,
     effective : {"none", "missing", "dependencyManagement", "dependency"},
     profiles : {<<>>},
     m1 : {Absent} \cup Present([managed : {"none", "literal"}, imports : {<<>>, <<"m2">>},
                                 v : {"none"}]),
     m2 : {Absent} \cup Present([managed : {"literal"}, imports : {<<>>}, v : {"none"}])]

InitLocate ==
    /\ pc = "locate.ready"
    /\ IdleCoord /\ IdleTree /\ IdleGraph
    /\ index = NoIndex
    /\ interp = <<>>
    /\ IdleLocator
    /\ request = <<>>
    /\ chain = <<>>
    /\ cursor = <<>>
    /\ bom = [stack |-> <<>>, visited |-> {}, reads |-> <<>>, ret |-> <<>>]
    /\ locations = <<>>
    /\ allocated = 0
    /\ \E sc \in LocateScenarios :
          /\ files = OriginFiles(sc)
          /\ heap = <<LocateIndex(sc)>>
          /\ disk = [workspace |-> Workspace(sc)]
    /\ thisCurrent = <<1>>
    /\ pathTargetCache = <<>>
    /\ tasks = <<>>
    /\ calls = 0
    /\ events = <<>>
    /\ editor = <<>>

SpecLocate == InitLocate /\ [][NextLocate]_vars

\* A location list that comes from a document of the chain or from a manifest.
ResolvedLocally(locs) ==
    SelectSeq(locs, LAMBDA l : l.kind \in {"dependencyManagement", "dependency", "bom", "bomImport",
                                            "property"}) /= <<>>

\* The effective pom generated for the current index is on disk and has an
\* entry for the dependency.
EffectiveHas(section) ==
    /\ heap[thisCurrent[1]].effectivePomPath /= Undef
    /\ Readable(files, heap[thisCurrent[1]].effectivePomPath[1])
    /\ findDependencyBlock(files[heap[thisCurrent[1]].effectivePomPath[1]].items,
                           request.dep.groupId, request.dep.artifactId, section) /= 0

\* The place of the entry the fallback prefers.
EffectivePlace ==
    Place4(PomLocation(0, heap[thisCurrent[1]].effectivePomPath[1],
                       findVersionLine(files[heap[thisCurrent[1]].effectivePomPath[1]].items,
                                       request.dep.groupId, request.dep.artifactId,
                                       IF EffectiveHas("dependencyManagement")
                                       THEN "dependencyManagement" ELSE "dependency"),
                       "effectivePom"))

\* C12: when an operation of the DependencyIndex (openLocation,
\* openDependencyLocate, resolveManagedInfo) has looked up the origin, no
\* document of the chain and no manifest resolved the dependency, and the
\* effective pom generated for the index has an entry for it, the lookup
\* yielded exactly one location, of kind effectivePom, at the
\* version-management entry if there is one and at the dependency entry
\* otherwise.
C12_EffectiveFallback ==
    ( /\ pc = "locate.done"
      /\ ~ResolvedLocally(locations)
      /\ (EffectiveHas("dependencyManagement") \/ EffectiveHas("dependency")) )
    => /\ Len(locations) = 1
       /\ Place4(locations[1]) = EffectivePlace

\* C16: when openLocation or openDependencyLocate has looked up the origin
\* and the list returned is not empty, the location opened in the editor is
\* the first of the list.
C16_OpensFirstLocation ==
    ( /\ pc = "locate.done"
      /\ Last(editor).op \in {"openLocation", "openDependencyLocate"}
      /\ locations /= <<>> )
    => Last(editor).opened = <<locations[1]>>

\* No file that can be read has an entry for the dependency looked up.
NoEntryAnywhere ==
    \A path \in DOMAIN files : Readable(files, path) =>
        ~\E i \in 1..Len(files[path].items) :
            /\ files[path].items[i].kind = "dependency"
            /\ files[path].items[i].groupId = request.dep.groupId
            /\ files[path].items[i].artifactId = request.dep.artifactId

\* C13: resolveVersionOrigin never raises, whichever of the starting
\* document, the parent documents and the manifests are present, absent or
\* unreadable, and it returns the empty list when no strategy matches.
C13_NeverRaises ==
    /\ pc /= "origin.raised"
    /\ (pc = "origin.done" /\ NoEntryAnywhere) => locations = <<>>

\* The files of the chain built so far.
ChainFiles == [i \in 1..Len(chain) |-> chain[i].file]

\* The chain is complete: buildPomChain has returned it.
ChainBuilt == pc \notin {"origin.chain", "origin.raised"}

\* C24: buildPomChain terminates for every starting file and every set of
\* files, a document whose parent reference resolves to its own path
\* included: the loop, which does the same whenever it reads the same file,
\* reads no file twice; the chain returned starts with the starting document,
\* goes on with each document's parent, and ends at the first document with
\* no parent reference or whose parent path does not exist.
C24_ChainTerminates ==
    /\ NoDuplicates(ChainFiles)
    /\ ChainBuilt =>
          /\ chain /= <<>>
          /\ chain[1].file = request.pomPath
          /\ \A i \in 1..(Len(chain) - 1) : chain[i].parentPath = <<chain[i + 1].file>>
          /\ \/ Last(chain).parentPath = Undef
             \/ Last(chain).parentPath[1] \notin DOMAIN files

\* The document at `path` declares the property.
Declares(path, name) ==
    \E i \in 1..Len(files[path].items) :
        /\ files[path].items[i].kind = "property"
        /\ files[path].items[i].profile = <<>>
        /\ files[path].items[i].name = name

\* The module imports a manifest with the version ${bv}, and bv is defined
\* in the module's parent only.
ImportVersionInAncestor ==
    /\ files \in {ImportRefFiles("module"), ImportRefFiles("parent")}
    /\ ~Declares(ModulePom, "bv")
    /\ Declares(ParentPom, "bv")

\* C25: a manifest import whose version is a property reference has the
\* version resolved against the whole chain: when the property is defined
\* only in an ancestor of the declaring document, the manifest at the path
\* of the property's value is read and searched for the dependency.
C25_ImportVersionFromChain ==
    (pc = "origin.done" /\ ImportVersionInAncestor) =>
        /\ Includes(bom.reads, ManifestPath("m1"))
        /\ \E i \in 1..Len(locations) :
              locations[i].kind = "bom" /\ locations[i].file = ManifestPath("m1")

\* An element of a document that is the project's own or inside a profile
\* block whose id is in the active-profile set given.
ActiveItem(item) ==
    \/ item.profile = <<>>
    \/ item.profile /= <<"">> /\ Includes(request.profiles, item.profile[1])

\* The document at `path` has, outside inactive profile blocks, an entry of
\* the section for the dependency looked up.
ActiveEntry(path, section) ==
    \E i \in 1..Len(files[path].items) :
        /\ files[path].items[i].kind = "dependency"
        /\ files[path].items[i].section = section
        /\ files[path].items[i].groupId = request.dep.groupId
        /\ files[path].items[i].artifactId = request.dep.artifactId
        /\ ActiveItem(files[path].items[i])

ActiveImport(path) ==
    \E i \in 1..Len(files[path].items) :
        /\ files[path].items[i].kind = "dependency"
        /\ files[path].items[i].section = "dependencyManagement"
        /\ files[path].items[i].type = "pom"
        /\ files[path].items[i].scope = "import"
        /\ ActiveItem(files[path].items[i])

ActiveProperty(path) ==
    \E i \in 1..Len(files[path].items) :
        files[path].items[i].kind = "property" /\ ActiveItem(files[path].items[i])

\* The semantic match behind a location is outside inactive profile blocks.
Justified(location) ==
    IF location.kind \in {"dependencyManagement", "dependency"}
    THEN ActiveEntry(location.file, location.kind)
    ELSE IF location.kind = "bom" THEN ActiveEntry(location.file, "dependencyManagement")
    ELSE IF location.kind = "bomImport" THEN ActiveImport(location.file)
    ELSE IF location.kind = "property" THEN ActiveProperty(location.file)
    ELSE location.kind = "effectivePom"

\* Some document has, in a profile block that is not active (its id is not in
\* the set given, or it has none), an entry, property or import.
InactiveElements ==
    \E path \in DOMAIN files :
        /\ Readable(files, path)
        /\ \E i \in 1..Len(files[path].items) : ~ActiveItem(files[path].items[i])

\* C18: an entry, property or manifest import inside a profile block that
\* is not active (its id is not in the active-profile set, or it has no id)
\* contributes no match: every location returned has its match outside such
\* blocks, and when the dependency is declared nowhere but in such blocks the
\* result is the one for the documents without them, the empty list.
C18_InactiveProfilesIgnored ==
    pc = "origin.done" =>
        /\ \A i \in 1..Len(locations) : Justified(locations[i])
        /\ ( /\ request.effectivePomPath = Undef
             /\ \A path \in DOMAIN files : Readable(files, path) =>
                    /\ ~ActiveEntry(path, "dependencyManagement")
                    /\ ~ActiveEntry(path, "dependency") )
           => locations = <<>>

\* A lookup with a non-empty active-profile set has returned locations for
\* a module that declares g:a itself and again inside a profile block which
\* is not active.
C18_Witness ==
    /\ pc = "origin.done"
    /\ request.profiles /= <<>>
    /\ InactiveElements
    /\ \E i \in 1..Len(files[ModulePom].items) :
          /\ files[ModulePom].items[i].kind = "dependency"
          /\ files[ModulePom].items[i].artifactId = request.dep.artifactId
          /\ ~ActiveItem(files[ModulePom].items[i])
    /\ locations /= <<>>

\* ------------------------------------------------- nested manifest imports
IsActiveImport(item) ==
    /\ item.kind = "dependency"
    /\ item.section = "dependencyManagement"
    /\ item.type = "pom"
    /\ item.scope = "import"
    /\ ActiveItem(item)

\* The manifests the document at `path` imports, in document order.
ImportedBy(path) ==
    [i \in 1..Len(SelectSeq(files[path].items, IsActiveImport)) |->
        ManifestPath(SelectSeq(files[path].items, IsActiveImport)[i].artifactId[1])]

\* The manifest at `path` manages the dependency looked up, with a version.
ManagesTarget(path) ==
    \E i \in 1..Len(files[path].items) :
        /\ files[path].items[i].kind = "dependency"
        /\ files[path].items[i].section = "dependencyManagement"
        /\ files[path].items[i].groupId = request.dep.groupId
        /\ files[path].items[i].artifactId = request.dep.artifactId
        /\ ActiveItem(files[path].items[i])
        /\ TruthyText(files[path].items[i].version)

\* Depth-first collection over the manifests `todo` and what they import,
\* each manifest once: the first that manages the dependency, and the set
\* of manifests gone through.
RECURSIVE DepthFirst(_, _)
AfterNested(nested, rest) ==
    IF nested.hit /= <<>> THEN nested ELSE DepthFirst(rest, nested.seen)

DepthFirst(todo, seen) ==
    IF todo = <<>>
    THEN [hit |-> <<>>, seen |-> seen]
    ELSE IF Head(todo) \notin DOMAIN files \/ Head(todo) \in seen
    THEN DepthFirst(Tail(todo), seen)
    ELSE IF ManagesTarget(Head(todo))
    THEN [hit |-> <<Head(todo)>>, seen |-> seen \cup {Head(todo)}]
    ELSE AfterNested(DepthFirst(ImportedBy(Head(todo)), seen \cup {Head(todo)}), Tail(todo))

\* The manifest imported by the entry at the line of the location.
ImportTarget(location) ==
    ManifestPath(
        files[location.file].items[
            CHOOSE i \in 1..Len(files[location.file].items) :
                /\ LineOf(files[location.file].items, i) <= location.line
                /\ location.line < LineOf(files[location.file].items, i)
                                     + Height(files[location.file].items[i])].artifactId[1])

\* The position of the manifest-define location in the result.
DefineAt == CHOOSE n \in 1..Len(locations) : locations[n].kind = "bom"

ThroughManifest == \E n \in 1..Len(locations) : locations[n].kind = "bom"

\* C26: a result found through manifest imports is the import locations
\* from the outermost importing document to the innermost, each importing
\* the document of the next, then exactly one manifest-define location, of
\* the first manifest in depth-first collection order that manages the
\* dependency, then property locations only; no manifest is read after the
\* resolving one.
C26_NestedImportOrder ==
    (pc = "origin.done" /\ ThroughManifest) =>
        /\ DefineAt > 1
        /\ \A i \in 1..Len(locations) :
              locations[i].kind = IF i < DefineAt THEN "bomImport"
                                  ELSE IF i = DefineAt THEN "bom" ELSE "property"
        /\ Includes(ChainFiles, locations[1].file)
        /\ \A i \in 1..(DefineAt - 1) : ImportTarget(locations[i]) = locations[i + 1].file
        /\ DepthFirst(ImportedBy(locations[1].file), {}).hit = <<locations[DefineAt].file>>
        /\ Last(bom.reads) = locations[DefineAt].file

\* The dependency was found in a manifest imported by a manifest: two import
\* locations, the module's first, before the manifest-define location.
C26_Witness ==
    /\ pc = "origin.done"
    /\ ThroughManifest
    /\ DefineAt = 3
    /\ locations[1].file = ModulePom
    /\ locations[2].file = ManifestPath("m1")
    /\ locations[3].file = ManifestPath("m2")

\* ------------------------------------------------------ parseActiveProfiles
\* A line of the build tool's output is the sequence of its characters.
ProfileChars == {" ", "-", "\\", "s", "d", "("}

\* The position after the longest run, from position i, of characters that
\* are in `set` (when inside) or not in it (when not inside).
RECURSIVE RunEnd(_, _, _, _)
RunEnd(line, i, set, inside) ==
    IF i <= Len(line) /\ ((line[i] \in set) = inside)
    THEN RunEnd(line, i + 1, set, inside)
    ELSE i

\* line.match(/^-\\s*([^\\s(]+)/): in the regular-expression literal `\\` is
\* a backslash character, so the pattern is a '-' at the start of the line,
\* a backslash, any number of the letter s, and a captured run of one or more
\* characters other than backslash, s and '('.  The captured text if the
\* line matches, else <<>> (a match captures at least one character).
MatchLine(line) ==
    IF Len(line) >= 2 /\ line[1] = "-" /\ line[2] = "\\"
    THEN SubSeq(line, RunEnd(line, 3, {"s"}, TRUE),
                RunEnd(line, RunEnd(line, 3, {"s"}, TRUE), {"\\", "s", "("}, FALSE) - 1)
    ELSE <<>>

\* The index of the last character that is not a space (0 if none).
RECURSIVE LastInk(_, _)
LastInk(text, i) == IF i = 0 \/ text[i] /= " " THEN i ELSE LastInk(text, i - 1)

\* String.prototype.trim.
Trim(text) == SubSeq(text, RunEnd(text, 1, {" "}, TRUE), LastInk(text, Len(text)))

RECURSIVE ProfilesFrom(_, _)
ProfilesFrom(lines, i) ==
    IF i > Len(lines)
    THEN <<>>
    ELSE IF MatchLine(lines[i]) /= <<>>
         THEN <<Trim(MatchLine(lines[i]))>> \o ProfilesFrom(lines, i + 1)
         ELSE ProfilesFrom(lines, i + 1)

\* output.split(/\r?\n/) has been done: `lines` are the lines.
parseActiveProfiles(lines) == ProfilesFrom(lines, 1)

InitProfiles ==
    /\ pc = "profiles.ready"
    /\ IdleCoord /\ IdleGraph /\ IdlePom /\ IdleIndex
    /\ index = NoIndex
    /\ \E n \in 0..MaxChars : \E line \in [1..n -> ProfileChars] : output = <<line>>

\* runActiveProfiles: parseActiveProfiles(result.stdout).
RunActiveProfiles ==
    /\ pc = "profiles.ready"
    /\ parsed' = parseActiveProfiles(output)
    /\ pc' = "profiles.done"
    /\ UNCHANGED <<coord, output, index, graphVars, pomVars, indexVars>>

NextProfiles == RunActiveProfiles

SpecProfiles == InitProfiles /\ [][NextProfiles]_vars

\* The id a line of the form ' - <id> (...' lists: <<>> if the line is not of
\* that form.
ListedId(line) ==
    IF /\ Len(line) >= 6
       /\ SubSeq(line, 1, 3) = <<" ", "-", " ">>
       /\ RunEnd(line, 4, {" ", "("}, FALSE) > 4
       /\ RunEnd(line, 4, {" ", "("}, FALSE) + 1 <= Len(line)
       /\ line[RunEnd(line, 4, {" ", "("}, FALSE)] = " "
       /\ line[RunEnd(line, 4, {" ", "("}, FALSE) + 1] = "("
    THEN SubSeq(line, 4, RunEnd(line, 4, {" ", "("}, FALSE) - 1)
    ELSE <<>>

\* C17: for every line of the output of the form ' - <id> (source: ...)',
\* the list runActiveProfiles returns contains <id>.
C17_ListedProfileReturned ==
    pc = "profiles.done" =>
        \A i \in 1..Len(output) :
            ListedId(output[i]) /= <<>> => ListedId(output[i]) \in Range(parsed)

\* --------------------------------------------- text locator, by character
\* A source text is a sequence of pieces, each a fixed run of characters: a
\* line break, a blank, or a tag with what it holds.  Offsets count
\* characters from 0, as the code's do.
OpenDep == "<dependency><groupId>g</groupId><artifactId>a</artifactId>"
OpenOther == "<dependency><groupId>g</groupId><artifactId>b</artifactId>"
VersionTag == "<version>1</version>"
CloseDep == "</dependency>"
OpenDm == "<dependencyManagement>"
CloseDm == "</dependencyManagement>"

Pieces == {"\n", "\r\n", " ", OpenDep, OpenOther, VersionTag, CloseDep, OpenDm, CloseDm}

\* piece.length
Length(piece) ==
    CASE piece \in {"\n", " "} -> 1
      [] piece = "\r\n" -> 2
      [] piece \in {OpenDep, OpenOther} -> 58
      [] piece = VersionTag -> 20
      [] piece = CloseDep -> 13
      [] piece = OpenDm -> 22
      [] piece = CloseDm -> 23

\* The offset of the first character of piece i (of the end of the text for
\* i = Len(text) + 1).
RECURSIVE OffsetOf(_, _)
OffsetOf(text, i) == IF i = 1 THEN 0 ELSE OffsetOf(text, i - 1) + Length(text[i - 1])

\* The first position from `from` on that holds one of the pieces, 0 if none.
RECURSIVE Find(_, _, _)
Find(text, from, wanted) ==
    IF from > Len(text) THEN 0
    ELSE IF text[from] \in wanted THEN from
    ELSE Find(text, from + 1, wanted)

\* <tag>([\s\S]*?)</tag> from position `from` on: the leftmost opening
\* piece that a closing piece follows, up to the first such closing piece.
\* <<>> for no match, else <<[first, last]>>.
TagMatch(text, from, opening, closing) ==
    IF Find(text, from, opening) = 0 \/ Find(text, Find(text, from, opening) + 1, closing) = 0
    THEN <<>>
    ELSE <<[first |-> Find(text, from, opening),
            last |-> Find(text, Find(text, from, opening) + 1, closing)]>>

RECURSIVE findTagRanges(_, _)
findTagRanges(text, from) ==
    IF TagMatch(text, from, {OpenDm}, {CloseDm}) = <<>>
    THEN <<>>
    ELSE <<[start |-> OffsetOf(text, TagMatch(text, from, {OpenDm}, {CloseDm})[1].first),
            end |-> OffsetOf(text, TagMatch(text, from, {OpenDm}, {CloseDm})[1].last + 1)]>>
         \o findTagRanges(text, TagMatch(text, from, {OpenDm}, {CloseDm})[1].last + 1)

isOffsetInRanges(offset, ranges) ==
    \E r \in 1..Len(ranges) : offset >= ranges[r].start /\ offset <= ranges[r].end

\* The while loop of findDependencyBlock for g:a from position `from` on:
\* <<>> for null, else the first and last piece of the block.
RECURSIVE BlockFrom(_, _, _)
BlockFrom(text, section, from) ==
    IF TagMatch(text, from, {OpenDep, OpenOther}, {CloseDep}) = <<>>
    THEN <<>>
    ELSE IF \/ (section = "dependencyManagement")
                /= isOffsetInRanges(OffsetOf(text, TagMatch(text, from, {OpenDep, OpenOther}, {CloseDep})[1].first),
                                    findTagRanges(text, 1))
            \/ \A k \in TagMatch(text, from, {OpenDep, OpenOther}, {CloseDep})[1].first ..
                         TagMatch(text, from, {OpenDep, OpenOther}, {CloseDep})[1].last :
                   text[k] /= OpenDep
    THEN BlockFrom(text, section, TagMatch(text, from, {OpenDep, OpenOther}, {CloseDep})[1].last + 1)
    ELSE TagMatch(text, from, {OpenDep, OpenOther}, {CloseDep})

\* The line breaks that text.slice(0, offset) holds whole.
BreaksBefore(text, offset) ==
    {k \in 1..Len(text) : text[k] \in {"\n", "\r\n"} /\ OffsetOf(text, k + 1) <= offset}

\* The offset at which the last line of text.slice(0, offset) starts.
LineStart(text, offset) ==
    IF BreaksBefore(text, offset) = {}
    THEN 0
    ELSE OffsetOf(text, (CHOOSE k \in BreaksBefore(text, offset) :
                            \A j \in BreaksBefore(text, offset) : j <= k) + 1)

\* pre = text.slice(0, offset); lines = pre.split(/\r?\n/);
\* line = lines.length; column = lines[lines.length - 1].length + 1
offsetToLineColumn(text, offset) ==
    [line |-> Cardinality(BreaksBefore(text, offset)) + 1,
     column |-> (offset - LineStart(text, offset)) + 1]

\* block.text.indexOf('<version>') as a position of the text, 0 for -1.
VersionIn(text, block) ==
    IF Find(text, block.first, {VersionTag}) \in block.first..block.last
    THEN Find(text, block.first, {VersionTag})
    ELSE 0

\* findVersionLine(xml, 'g', 'a', section) on the text itself.
findVersionLineIn(text, section) ==
    IF BlockFrom(text, section, 1) = <<>>
    THEN NotFound
    ELSE IF VersionIn(text, BlockFrom(text, section, 1)[1]) /= 0
    THEN offsetToLineColumn(text, OffsetOf(text, VersionIn(text, BlockFrom(text, section, 1)[1])) + 1)
    ELSE offsetToLineColumn(text, OffsetOf(text, BlockFrom(text, section, 1)[1].first) + 1)

InitText ==
    /\ pc = "text.ready"
    /\ IdleCoord /\ IdleTree /\ IdleGraph /\ IdleIndex
    /\ files = <<>> /\ chain = <<>> /\ interp = <<>> /\ IdleOrigin
    /\ index = NoIndex
    /\ \E n \in 0..MaxTokens : \E text \in [1..n -> Pieces] :
       \E section \in {"dependencyManagement", "dependency"} :
          locator = [xml |-> text, section |-> section, position |-> <<>>]

FindVersionLine ==
    /\ pc = "text.ready"
    /\ locator' = [locator EXCEPT !.position = <<findVersionLineIn(locator.xml, locator.section)>>]
    /\ pc' = "text.done"
    /\ UNCHANGED <<engineVars, indexVars, files, request, chain, cursor, bom, locations, allocated, interp>>

NextText == FindVersionLine

SpecText == InitText /\ [][NextText]_vars

\* The entry block matched and the piece whose first character is to be
\* located: the block's version sub-tag, or the block's opening tag.
MatchedBlock == BlockFrom(locator.xml, locator.section, 1)

Located ==
    IF VersionIn(locator.xml, MatchedBlock[1]) /= 0
    THEN VersionIn(locator.xml, MatchedBlock[1])
    ELSE MatchedBlock[1].first

\* The 1-indexed line and column of the first character of piece i.
LineOfPiece(i) == 1 + Cardinality({k \in 1..(i - 1) : locator.xml[k] \in {"\n", "\r\n"}})

RECURSIVE CharsBack(_)
CharsBack(i) ==
    IF i = 0 \/ locator.xml[i] \in {"\n", "\r\n"}
    THEN 0
    ELSE Length(locator.xml[i]) + CharsBack(i - 1)

ColumnOfPiece(i) == 1 + CharsBack(i - 1)

\* C27: for every text and every matched entry block, the position the
\* locator returns is the 1-indexed line and column of the first character
\* of the block's version sub-tag, or of the block's first character when it
\* has none; line and column are at least 1.
C27_VersionPosition ==
    pc = "text.done" =>
        /\ locator.position[1].line >= 1
        /\ locator.position[1].column >= 1
        /\ MatchedBlock /= <<>> =>
              /\ locator.position[1].line = LineOfPiece(Located)
              /\ locator.position[1].column = ColumnOfPiece(Located)

\* ------------------------------------ DependencyIndex: cache and reimport
\* The methods of the one DependencyIndex run as calls that interleave at
\* their awaits.  A call is a record of `tasks`: the method, its argument,
\* the await it stands at, and its local variables.
IndexPoms == {ModulePom, ParentPom}

ParentId == <<"g", "p", "jar", "0.0.1">>

ProjectId(pomPath) == IF pomPath = ModulePom THEN ModuleId ELSE ParentId

\* The report mvn dependency:tree prints for the pom file: the project and
\* its dependency g:a (the edits made leave the dependencies as they are).
Report(pomPath) ==
    <<[glyph |-> FALSE, indent |-> 0, coord |-> ProjectId(pomPath), ann |-> NoAnn],
      [glyph |-> TRUE, indent |-> 0, coord |-> TargetId, ann |-> NoAnn]>>

\* The index reimport builds: parseVerboseTree's, with the fields set in
\* lines 81-86.
DependencyIndexData(tree, pomPath, profiles, pomHash) ==
    [pomPath |-> pomPath, profiles |-> profiles, pomHash |-> pomHash,
     effectivePomPath |-> <<EffectivePom>>,
     nodes |-> tree.nodes, keys |-> tree.keys, roots |-> tree.roots]

\* The nodes, edges and roots of an index.
GraphOf(idx) == [nodes |-> idx.nodes, keys |-> idx.keys, roots |-> idx.roots]

\* `first` tells the call made before every other call.
Call(op, pomPath, at) ==
    [op |-> op, pomPath |-> pomPath, at |-> at, first |-> calls = 0, key |-> <<>>, target |-> <<>>,
     tree |-> <<>>, profiles |-> <<>>, hash |-> 0, raw |-> <<>>, current |-> <<>>]

\* `${includeRemote ? 'R' : 'L'}|${prevId || 'ROOT'}=>${id}`
CacheKey(id, prevId, includeRemote) ==
    <<IF includeRemote THEN "R" ELSE "L", IF prevId = <<>> THEN <<"ROOT">> ELSE prevId[1], id>>

At(t, at) == t \in 1..Len(tasks) /\ tasks[t].at = at

\* The calls under way once call t has returned or thrown.
Return(running, t) == SubSeq(running, 1, t - 1) \o SubSeq(running, t + 1, Len(running))

CurrentPomPath == IF thisCurrent = <<>> THEN <<>> ELSE <<heap[thisCurrent[1]].pomPath>>

\* A reference no object has.
NewRef(objects) == CHOOSE r \in 1..(Cardinality(DOMAIN objects) + 1) : r \notin DOMAIN objects

\* Install, were the fields of the current object overwritten where it is
\* (Object.assign(this.current, index)) instead of this.current being set.
Install_InPlace(objects, cur, held, idx) ==
    IF cur = <<>>
    THEN [heap |-> (NewRef(objects) :> idx) @@ objects, current |-> <<NewRef(objects)>>]
    ELSE [heap |-> [objects EXCEPT ![cur[1]] = idx], current |-> cur]

\* this.current = index, for an object just created: the objects there were
\* stay as they are, and those nothing but `held` refers to any more are
\* collected.
Install(objects, cur, held, idx) ==
    [heap |-> [r \in (DOMAIN objects \cap Range(held)) \cup {NewRef(objects)} |->
                 IF r = NewRef(objects) THEN idx ELSE objects[r]],
     current |-> <<NewRef(objects)>>]

indexEnv == <<pc, engineVars, files, request, chain, cursor, bom, locations, interp, locator, editor>>

\* reimportWithProgress(pomPath): the Reimport command or button, or a change
\* of the watched pom file.
Reimport ==
    /\ pc = "index.running"
    /\ calls < MaxCalls
    /\ calls' = calls + 1
    /\ \E pomPath \in IndexPoms :
          tasks' = Append(tasks, Call("reimport", pomPath, "clearCache"))
    /\ UNCHANGED <<indexEnv, allocated, heap, thisCurrent, pathTargetCache, disk, events>>

\* ensureFresh(pomPath): the panel is shown for the pom.  The call stands at
\* the readFile of loadCache (lines 48-50).
EnsureFresh ==
    /\ pc = "index.running"
    /\ calls < MaxCalls
    /\ calls' = calls + 1
    /\ \E pomPath \in IndexPoms :
          tasks' = Append(tasks, Call("ensureFresh", pomPath, "loadCache.read"))
    /\ UNCHANGED <<indexEnv, allocated, heap, thisCurrent, pathTargetCache, disk, events>>

\* await this.clearCache(pomPath)
ClearCache ==
    /\ \E t \in 1..Len(tasks) :
          /\ At(t, "clearCache")
          /\ disk' = [disk EXCEPT !.cache[tasks[t].pomPath] = <<>>]
          /\ tasks' = [tasks EXCEPT ![t].op = "reimport", ![t].at = "mvn"]
    /\ UNCHANGED <<indexEnv, allocated, heap, thisCurrent, pathTargetCache, calls, events>>

\* runActiveProfiles, runDependencyTreeVerbose and generateEffectivePom: the
\* build tool fails (reimport rejects) or reports on the file as it is now.
RunMaven ==
    /\ \E t \in 1..Len(tasks) :
          /\ At(t, "mvn")
          /\ \/ tasks' = Return(tasks, t)
             \/ \E stdout \in {<<<<"-", "\\", "d">>>>} :
                   tasks' = [tasks EXCEPT
                               ![t].profiles = parseActiveProfiles(stdout),
                               ![t].tree = parseVerboseTree(Report(tasks[t].pomPath)),
                               ![t].at = "hashFile"]
    /\ UNCHANGED <<indexEnv, allocated, heap, thisCurrent, pathTargetCache, calls, disk, events>>

\* const pomHash = await hashFile(pomPath)
HashFile ==
    /\ \E t \in 1..Len(tasks) :
          /\ At(t, "hashFile")
          /\ tasks' = [tasks EXCEPT ![t].hash = disk.hash[tasks[t].pomPath], ![t].at = "saveCache"]
    /\ UNCHANGED <<indexEnv, allocated, heap, thisCurrent, pathTargetCache, calls, disk, events>>

\* await this.saveCache(index)
SaveCache ==
    /\ \E t \in 1..Len(tasks) :
          /\ At(t, "saveCache")
          /\ disk' = [disk EXCEPT
                        !.cache[tasks[t].pomPath] =
                            <<DependencyIndexData(tasks[t].tree, tasks[t].pomPath,
                                                  tasks[t].profiles, tasks[t].hash)>>]
          /\ tasks' = [tasks EXCEPT ![t].at = "install"]
    /\ UNCHANGED <<indexEnv, allocated, heap, thisCurrent, pathTargetCache, calls, events>>

\* this.current = index; this.pathTargetCache.clear(); this.emitter.fire(index)
InstallIndex ==
    /\ \E t \in 1..Len(tasks) :
          /\ At(t, "install")
          /\ heap' = Install(heap, thisCurrent, <<>>,
                             DependencyIndexData(tasks[t].tree, tasks[t].pomPath,
                                                 tasks[t].profiles, tasks[t].hash)).heap
          /\ thisCurrent' = Install(heap, thisCurrent, <<>>,
                                    DependencyIndexData(tasks[t].tree, tasks[t].pomPath,
                                                        tasks[t].profiles, tasks[t].hash)).current
          /\ tasks' = Return(tasks, t)
    /\ pathTargetCache' = <<>>
    /\ events' = thisCurrent'
    /\ UNCHANGED <<indexEnv, allocated, calls, disk>>

\* loadCache: const raw = await fs.readFile(cachePath, 'utf8')
LoadCacheRead ==
    /\ \E t \in 1..Len(tasks) :
          /\ At(t, "loadCache.read")
          /\ tasks' = [tasks EXCEPT ![t].raw = disk.cache[tasks[t].pomPath],
                                    ![t].at = "loadCache.assign"]
    /\ UNCHANGED <<indexEnv, allocated, heap, thisCurrent, pathTargetCache, calls, disk, events>>

\* loadCache, lines 51-64: this.current = { ...the parsed fields }, or
\* nothing when there was no file.  The memo is left as it is.
LoadCacheAssign ==
    /\ \E t \in 1..Len(tasks) :
          /\ At(t, "loadCache.assign")
          /\ IF tasks[t].raw = <<>>
             THEN UNCHANGED <<heap, thisCurrent>>
             ELSE /\ heap' = Install(heap, thisCurrent, events, tasks[t].raw[1]).heap
                  /\ thisCurrent' = Install(heap, thisCurrent, events, tasks[t].raw[1]).current
          /\ tasks' = [tasks EXCEPT ![t].at = "ensureFresh.hash"]
    /\ UNCHANGED <<indexEnv, allocated, pathTargetCache, calls, disk, events>>

\* ensureFresh: const currentHash = await hashFile(pomPath)
EnsureFreshHash ==
    /\ \E t \in 1..Len(tasks) :
          /\ At(t, "ensureFresh.hash")
          /\ tasks' = [tasks EXCEPT ![t].hash = disk.hash[tasks[t].pomPath],
                                    ![t].at = "ensureFresh.check"]
    /\ UNCHANGED <<indexEnv, allocated, heap, thisCurrent, pathTargetCache, calls, disk, events>>

\* !this.current || this.current.pomPath !== pomPath || this.current.pomHash !== currentHash
Stale(pomPath, currentHash) ==
    \/ thisCurrent = <<>>
    \/ heap[thisCurrent[1]].pomPath /= pomPath
    \/ heap[thisCurrent[1]].pomHash /= currentHash

\* ensureFresh, lines 98-101: reimport, or return this.current.
EnsureFreshCheck ==
    /\ \E t \in 1..Len(tasks) :
          /\ At(t, "ensureFresh.check")
          /\ tasks' = IF Stale(tasks[t].pomPath, tasks[t].hash)
                       THEN [tasks EXCEPT ![t].at = "clearCache"]
                       ELSE Return(tasks, t)
    /\ UNCHANGED <<indexEnv, allocated, heap, thisCurrent, pathTargetCache, calls, disk, events>>

\* resolvePathNodeTargetCached up to its await: the memoized target is
\* returned, or resolvePathNodeTarget is called.
CallPathTarget(op, id, prevId, includeRemote) ==
    /\ calls < MaxCalls
    /\ calls' = calls + 1
    /\ tasks' = IF CacheKey(id, prevId, includeRemote) \in DOMAIN pathTargetCache
                 THEN tasks
                 ELSE Append(tasks, [Call(op, <<>>, "path.resolve") EXCEPT
                                       !.key = CacheKey(id, prevId, includeRemote)])
    /\ UNCHANGED <<indexEnv, allocated, heap, thisCurrent, pathTargetCache, disk, events>>

\* openPathNode(id, prevId): resolvePathNodeTargetCached(id, prevId, true).
OpenPathNode ==
    /\ pc = "index.running"
    /\ CallPathTarget("openPathNode", TargetId, <<>>, TRUE)

\* previewPathNodeTarget(id, prevId): resolvePathNodeTargetCached(id, prevId, false).
PreviewPathNodeTarget ==
    /\ pc = "index.running"
    /\ CallPathTarget("previewPathNodeTarget", TargetId, <<>>, FALSE)

\* const target = await this.resolvePathNodeTarget(id, prevId, includeRemote):
\* the target for the object this.current refers to when the call reads it.
PathResolve ==
    /\ \E t \in 1..Len(tasks) :
          /\ At(t, "path.resolve")
          /\ tasks' = [tasks EXCEPT
                         ![t].target = resolvePathNodeTarget(files, disk.workspace, CurrentPomPath,
                                                             tasks[t].key[3],
                                                             IF tasks[t].key[2] = <<"ROOT">>
                                                             THEN <<>> ELSE <<tasks[t].key[2]>>,
                                                             tasks[t].key[1] = "R", 0),
                         ![t].current = thisCurrent,
                         ![t].at = "path.store"]
    /\ UNCHANGED <<indexEnv, allocated, heap, thisCurrent, pathTargetCache, calls, disk, events>>

\* this.pathTargetCache.set(key, target); return target
PathStore ==
    /\ \E t \in 1..Len(tasks) :
          /\ At(t, "path.store")
          /\ pathTargetCache' = (tasks[t].key :> tasks[t].target) @@ pathTargetCache
          /\ tasks' = Return(tasks, t)
    /\ UNCHANGED <<indexEnv, allocated, heap, thisCurrent, calls, disk, events>>

\* openLocation, openDependencyLocate or resolveManagedInfo, for a node of
\* the current index: each reads this.current and calls resolveVersionOrigin
\* with the current pom path, a copy of the node and the current profiles
\* (the lookup itself is SpecLocate's).
OriginLookup ==
    /\ pc = "index.running"
    /\ calls < MaxCalls
    /\ calls' = calls + 1
    /\ thisCurrent /= <<>>
    /\ \E id \in DOMAIN heap[thisCurrent[1]].nodes \ Range(heap[thisCurrent[1]].roots) :
          depForOrigin(heap[thisCurrent[1]], heap[thisCurrent[1]].nodes[id]).id = id
    /\ UNCHANGED <<indexEnv, allocated, heap, thisCurrent, pathTargetCache, tasks, disk, events>>

\* The module's pom file is edited and saved: a change that leaves its
\* dependencies as they are, or the change undone.
EditPom ==
    /\ pc = "index.running"
    /\ disk' = [disk EXCEPT !.hash[ModulePom] = 1 - @]
    /\ UNCHANGED <<indexEnv, allocated, heap, thisCurrent, pathTargetCache, tasks, calls, events>>

NextIndex ==
    \/ Reimport
    \/ EnsureFresh
    \/ ClearCache
    \/ RunMaven
    \/ HashFile
    \/ SaveCache
    \/ InstallIndex
    \/ LoadCacheRead
    \/ LoadCacheAssign
    \/ EnsureFreshHash
    \/ EnsureFreshCheck
    \/ OpenPathNode
    \/ PreviewPathNodeTarget
    \/ PathResolve
    \/ PathStore
    \/ OriginLookup
    \/ EditPom

\* The module and its parent, each declaring g:a.
IndexFiles ==
    (ModulePom :> OriginModule([direct |-> "literal", managed |-> "none", imports |-> <<>>,
                                v |-> "none"], TRUE))
    @@ (ParentPom :> OriginParent([managed |-> "literal", v |-> "none"]))

\* The extension has just started, or the module's index is installed (as an
\* ensureFresh from the persisted index leaves it); the indexes of the poms
\* are persisted, for the files as they are, or none is.
InitIndex ==
    /\ pc = "index.running"
    /\ IdleCoord /\ IdleTree /\ IdleGraph /\ IdleOrigin
    /\ index = NoIndex
    /\ interp = <<>>
    /\ IdleLocator
    /\ chain = <<>>
    /\ files = IndexFiles
    /\ pathTargetCache = <<>>
    /\ tasks = <<>>
    /\ calls = 0
    /\ \/ heap = <<>> /\ thisCurrent = <<>>
       \/ /\ heap = <<DependencyIndexData(parseVerboseTree(Report(ModulePom)), ModulePom, <<>>, 0)>>
          /\ thisCurrent = <<1>>
    /\ \E persisted \in {{}, IndexPoms} :
          disk = [hash |-> [pomPath \in IndexPoms |-> 0],
                  cache |-> [pomPath \in IndexPoms |->
                               IF pomPath \in persisted
                               THEN <<DependencyIndexData(parseVerboseTree(Report(pomPath)),
                                                          pomPath, <<>>, 0)>>
                               ELSE <<>>],
                  workspace |-> Workspace([parent |-> <<"present">>])]
    /\ events = <<>>
    /\ editor = <<>>

SpecIndex == InitIndex /\ [][NextIndex]_vars

\* C14: whenever the current graph is replaced by another graph, by reimport
\* or by ensureFresh loading a persisted index, no path target memoized
\* before the replacement is left in the memo.
C14_ReplacementDiscardsMemo ==
    [][ ( /\ thisCurrent /= <<>>
          /\ thisCurrent' /= thisCurrent
          /\ GraphOf(heap'[thisCurrent'[1]]) /= GraphOf(heap[thisCurrent[1]]) )
        => pathTargetCache' = <<>> ]_vars

\* C15: once a graph is installed as the current graph, no step of any
\* operation (the origin lookups, openPathNode, previewPathNodeTarget,
\* ensureFresh, reimport) changes its nodes, their fields and edge lists, or
\* its roots: the current graph changes only by this.current referring to a
\* newly created object.
C15_InstalledGraphImmutable ==
    [][ \A r \in DOMAIN heap \cap DOMAIN heap' : GraphOf(heap'[r]) = GraphOf(heap[r]) ]_vars

\* A reimport installed a graph and fired it, a path-target resolution has
\* run against it and stored its result, and no call is under way.
C15_Witness ==
    /\ pc = "index.running"
    /\ thisCurrent /= <<>>
    /\ events = thisCurrent
    /\ pathTargetCache /= <<>>
    /\ tasks = <<>>

\* C29: under every interleaving of path-target resolutions with a reimport,
\* the memo holds no entry computed against a graph other than the current
\* one: when the current graph is one a reimport installed (the one last
\* fired), a resolution that stores its result has read that graph, not
\* the one that was current before the reimport cleared the memo.
C29_MemoEntryOfCurrentGraph ==
    [][ \A t \in 1..Len(tasks) :
            ( /\ At(t, "path.store")
              /\ tasks' = Return(tasks, t)
              /\ thisCurrent /= <<>>
              /\ events = thisCurrent )
            => tasks[t].current = thisCurrent ]_vars

\* Call t, the first call made, completes its reimport after a reimport
\* started later has completed and fired its index, and no other reimport is
\* under way.
LastOfOverlapping(t) ==
    /\ At(t, "install")
    /\ tasks' = Return(tasks, t)
    /\ tasks[t].first
    /\ events /= <<>>
    /\ \A u \in 1..Len(tasks') : ~(tasks'[u].op \in {"reimport", "ensureFresh"})

\* Call t's reimport fails.
Fails(t) == At(t, "mvn") /\ tasks' = Return(tasks, t)

\* C30: when two reimports overlap, once both have completed the current
\* graph and the last index fired are those of the reimport started last;
\* and a reimport that fails leaves the current graph as it is and fires
\* nothing.
C30_LastStartedWins ==
    [][ \A t \in 1..Len(tasks) :
            /\ LastOfOverlapping(t) => (thisCurrent' = events /\ events' = events)
            /\ Fails(t) => (thisCurrent' = thisCurrent /\ heap' = heap /\ events' = events) ]_vars

====
